---- MODULE Spec2Model ----
(***************************************************************************)
(* A model of the lazydev daemon: the reverse proxy, the process           *)
(* supervisor, the port allocator, the idle controller and the state       *)
(* store they share.                                                       *)
(*                                                                         *)
(* Granularity.  The daemon runs on one JavaScript event loop.  An action  *)
(* of the model is the code a handler runs between two awaits that wait    *)
(* for the outside world (a shell command, an HTTP probe, a timer, a       *)
(* socket event).  An await on a promise that is already settled (such as  *)
(* `await isProcessRunning(pid)`, whose body has no await) does not let    *)
(* another handler's macrotask in, and is folded into the action.          *)
(*                                                                         *)
(* Time.  Date.now() is the variable now, in milliseconds; it is advanced  *)
(* by the interval timer of the idle scan, one scan_interval per tick.     *)
(***************************************************************************)
EXTENDS Integers, Sequences, FiniteSets, TLC

\* ------------------------------------------------------------ bounds
NumPorts == 2        \* ports in settings.port_range
MaxSpawn == 3        \* child processes spawned over a run
MaxReq == 2          \* proxy requests in flight at once
MaxConn == 1         \* upgraded WebSocket connections open at once
MaxScans == 2        \* idle-scan callbacks in flight at once
MaxEvents == 4       \* outside events over a run: requests, timer ticks,
                     \* crashes, client closes, signals, direct calls
MaxStartEvents == 3    \* outside events over a run of the cold starts alone
MaxRestartEvents == 2   \* requests, stops and crashes after a restart
MaxRouteEvents == 2     \* requests and reloads over a run of the routing
MaxActivityEvents == 3  \* ticks, requests and closes of a running project
MaxHistory == 3      \* timestamps in a request history drawn as an input
MaxCacheEvents == 3  \* requests, seconds and hangs over a run of the cache
MaxBridgeEvents == 3 \* upgrades, closes and crashes over a run of the bridge
MaxMessages == 2     \* messages a client sends on one connection

\* ------------------------------------------------------------ constants
Null == 0 - 1                     \* null / undefined of a numeric field
ClockStep == 30 * 1000             \* DEFAULT_SETTINGS.scan_interval
StartClock == ClockStep
MinPort == 4000
BaseTimeout == 5 * 60 * 1000
DefaultColdStart == 5000
HistoryLimit == 20
GRACEFUL_SHUTDOWN_TIMEOUT == 5000
KillWait == 1000                  \* the wait after SIGKILL
HEALTH_CHECK_CACHE_TTL == 2000

Projects == {"alpha", "beta"}
Ports == MinPort .. (MinPort + NumPorts - 1)
Pids == 1 .. MaxSpawn

\* A JavaScript value used as a condition: null, undefined and 0 are falsy.
Truthy(x) == x # Null /\ x # 0

Min2(a, b) == IF a < b THEN a ELSE b
Max2(a, b) == IF a > b THEN a ELSE b

\* ------------------------------------------------------------ configuration
\* A scalar of the YAML document: absent, a number, or a string
\* "<n><unit>" matching ^\d+(ms|s|m|h)?$ (unit "" when none is written).
RawAbsent == [kind |-> "absent", n |-> 0, unit |-> ""]
RawNum(v) == [kind |-> "num", n |-> v, unit |-> ""]
RawStr(v, u) == [kind |-> "str", n |-> v, unit |-> u]

\* `x ? ... : ...` on a YAML scalar: a non-empty string is truthy, 0 is not.
RawTruthy(d) == \/ d.kind = "str"
                \/ d.kind = "num" /\ d.n # 0

parseDuration(d) ==
  IF d.kind = "num" THEN d.n
  ELSE CASE d.unit = "ms" -> d.n
         [] d.unit = "s"  -> d.n * 1000
         [] d.unit = "m"  -> d.n * 60 * 1000
         [] d.unit = "h"  -> d.n * 60 * 60 * 1000
         [] OTHER         -> d.n

DEFAULT_SETTINGS ==
  [ idle_timeout    |-> 600000,
    startup_timeout |-> 30000,
    port_lo         |-> 4000,
    port_hi         |-> 4999,
    scan_interval   |-> 30000,
    dynamic_timeout |-> TRUE,
    min_timeout     |-> 120000,
    max_timeout     |-> 1800000 ]

\* settings of loadConfig: the defaults, overridden by the keys present.
LoadSettings(ys) ==
  [ idle_timeout    |-> IF ys.idle_timeout.kind # "absent"
                        THEN parseDuration(ys.idle_timeout)
                        ELSE DEFAULT_SETTINGS.idle_timeout,
    startup_timeout |-> DEFAULT_SETTINGS.startup_timeout,
    port_lo         |-> ys.port_lo,
    port_hi         |-> ys.port_hi,
    scan_interval   |-> IF ys.scan_interval.kind # "absent"
                        THEN parseDuration(ys.scan_interval)
                        ELSE DEFAULT_SETTINGS.scan_interval,
    dynamic_timeout |-> IF ys.dynamic_timeout = "absent"
                        THEN DEFAULT_SETTINGS.dynamic_timeout
                        ELSE ys.dynamic_timeout = "true",
    min_timeout     |-> IF ys.min_timeout.kind # "absent"
                        THEN parseDuration(ys.min_timeout)
                        ELSE DEFAULT_SETTINGS.min_timeout,
    max_timeout     |-> IF ys.max_timeout.kind # "absent"
                        THEN parseDuration(ys.max_timeout)
                        ELSE DEFAULT_SETTINGS.max_timeout ]

\* One entry of config.projects as loadConfig builds it.
LoadProjectIdleTimeout(yp, settings) ==
  IF RawTruthy(yp.idle_timeout)
  THEN parseDuration(yp.idle_timeout) ELSE settings.idle_timeout

LoadProject(name, yp, settings) ==
  [ name         |-> name,
    idle_timeout |-> LoadProjectIdleTimeout(yp, settings),
    disabled     |-> yp.disabled = "true",
    aliases      |-> IF "aliases" \in DOMAIN yp THEN yp.aliases ELSE << >> ]

loadConfig(y) ==
  LET settings == LoadSettings(y.settings)
  IN [ settings |-> settings,
       projects |-> [n \in DOMAIN y.projects |->
                       LoadProject(n, y.projects[n], settings)] ]

VARIABLES
  now,         \* Date.now()
  yaml,        \* the parsed YAML document of the configuration file
  config,      \* the Config the daemon loaded from it
  store,       \* table projects of the state store, by name
  metrics,     \* table metrics of the state store, by name
  usedPorts,   \* the allocator's reservation set
  healthCheckCache,  \* the proxy's cache of health probes, by port
  cfgSettings, \* cfg.settings of the Config startProxy was called with
  processes,   \* the managed process map: name -> child pid
  orphanPids,  \* adopted orphans: name -> pid
  children,    \* the operating system's view of every spawned child
  nextPid,     \* the pid the next spawn gets
  req,         \* proxy requests in flight
  events,      \* outside events so far
  conn,        \* upgraded WebSocket connections
  scan,        \* idle-scan callbacks
  daemon,      \* lifecycle of the daemon process
  shut,        \* the shutdown handler's stopAllProjects call
  idleStops,   \* log: stopProject calls made by the idle scan, with the
               \* timeout that had expired
  probe        \* the last response of the proxy, or the result of a direct call

vars == << now, yaml, config, store, metrics, usedPorts, healthCheckCache,
           cfgSettings,
           processes, orphanPids,
           children, nextPid, req, events, conn, scan, daemon, shut,
           idleStops, probe >>

\* ------------------------------------------------------------ state store
\* rowid is the row's place in the table: SELECT * returns rows in that order.
NoRow ==
  [ exists |-> FALSE, rowid |-> 0, port |-> Null, pid |-> Null, status |-> "none",
    last_activity |-> Null, started_at |-> Null, websocket_connections |-> 0 ]

\* The row an INSERT builds from an empty partial state.
DefaultRow ==
  [ exists |-> TRUE, rowid |-> 0, port |-> Null, pid |-> Null, status |-> "stopped",
    last_activity |-> Null, started_at |-> Null, websocket_connections |-> 0 ]

NoMetrics == [ exists |-> FALSE, cold_start_time |-> Null, request_history |-> << >> ]

Merge(row, partial) ==
  [f \in DOMAIN row |-> IF f \in DOMAIN partial THEN partial[f] ELSE row[f]]

\* The world a handler's synchronous code reads and writes.
World ==
  [ store |-> store, metrics |-> metrics, usedPorts |-> usedPorts,
    healthCheckCache |-> healthCheckCache, cfgSettings |-> cfgSettings,
    processes |-> processes, orphanPids |-> orphanPids,
    children |-> children, nextPid |-> nextPid ]

Commit(w) ==
  /\ store' = w.store
  /\ metrics' = w.metrics
  /\ usedPorts' = w.usedPorts
  /\ healthCheckCache' = w.healthCheckCache
  /\ cfgSettings' = w.cfgSettings
  /\ processes' = w.processes
  /\ orphanPids' = w.orphanPids
  /\ children' = w.children
  /\ nextPid' = w.nextPid

RowCount(st) == Cardinality({ n \in Projects : st[n].exists })

\* A setProjectState that replaces the row it finds.
setProjectStateReplaces(w, name, partial) ==
  [w EXCEPT !.store[name] =
     IF @.exists THEN [Merge(DefaultRow, partial) EXCEPT !.rowid = w.store[name].rowid]
     ELSE [Merge(DefaultRow, partial) EXCEPT !.rowid = RowCount(w.store) + 1]]

\* getProjectState: the row as a ProjectState, or no state.
NoState == [ found |-> FALSE ]

getProjectState(st, name) ==
  IF ~st[name].exists THEN NoState
  ELSE [ found |-> TRUE, name |-> name, port |-> st[name].port,
         pid |-> st[name].pid, status |-> st[name].status,
         last_activity |-> st[name].last_activity,
         started_at |-> st[name].started_at,
         websocket_connections |-> st[name].websocket_connections ]

setProjectState(w, name, partial) ==
  [w EXCEPT !.store[name] =
     IF @.exists THEN Merge(@, partial)
     ELSE [Merge(DefaultRow, partial) EXCEPT !.rowid = RowCount(w.store) + 1]]

\* Object.entries(getAllStates()): the names in row order.
RECURSIVE RowOrder(_, _)
RowOrder(st, k) ==
  IF k > RowCount(st) THEN << >>
  ELSE << CHOOSE n \in Projects : st[n].exists /\ st[n].rowid = k >> \o RowOrder(st, k + 1)

Last(s, k) == IF Len(s) <= k THEN s ELSE SubSeq(s, Len(s) - k + 1, Len(s))

\* An addRequestToHistory that writes only to a row whose cold start is known.
addRequestToHistoryWhenKnown(w, name, timestamp) ==
  LET m == w.metrics[name]
      history == Last(Append(m.request_history, timestamp), HistoryLimit)
  IN IF m.cold_start_time = Null THEN w
     ELSE [w EXCEPT !.metrics[name] =
             [ exists |-> TRUE, cold_start_time |-> m.cold_start_time,
               request_history |-> history ]]

addRequestToHistory(w, name, timestamp) ==
  LET m == w.metrics[name]
      history == Last(Append(m.request_history, timestamp), HistoryLimit)
  IN [w EXCEPT !.metrics[name] =
        [ exists |-> TRUE, cold_start_time |-> m.cold_start_time,
          request_history |-> history ]]

\* An updateActivity that stamps the row with the time of its start.
updateActivityAtStart(w, name, t) ==
  LET w1 == IF w.store[name].exists
            THEN [w EXCEPT !.store[name].last_activity = w.store[name].started_at]
            ELSE w
  IN addRequestToHistory(w1, name, t)

updateActivity(w, name, t) ==
  LET w1 == IF w.store[name].exists
            THEN [w EXCEPT !.store[name].last_activity = t] ELSE w
  IN addRequestToHistory(w1, name, t)

incrementWebSockets(w, name, t) ==
  IF w.store[name].exists
  THEN [w EXCEPT !.store[name].websocket_connections = @ + 1,
                 !.store[name].last_activity = t]
  ELSE w

\* A decrement that is not floored.
decrementWebSocketsUnfloored(w, name, t) ==
  IF w.store[name].exists
  THEN [w EXCEPT !.store[name].websocket_connections = @ - 1,
                 !.store[name].last_activity = t]
  ELSE w

decrementWebSockets(w, name, t) ==
  IF w.store[name].exists
  THEN [w EXCEPT !.store[name].websocket_connections = Max2(0, @ - 1),
                 !.store[name].last_activity = t]
  ELSE w

setColdStartTime(w, name, time) ==
  [w EXCEPT !.metrics[name] =
     IF @.exists THEN [@ EXCEPT !.cold_start_time = time]
     ELSE [ exists |-> TRUE, cold_start_time |-> time, request_history |-> << >> ]]

\* ------------------------------------------------------------ port allocator
releasePort(w, port) == [w EXCEPT !.usedPorts = @ \ {port}]

markPortUsed(w, port) == [w EXCEPT !.usedPorts = @ \cup {port}]

\* Ports of the range that pass both tests of findAvailablePort.
FreePorts(w, settings, systemUsed) ==
  { p \in settings.port_lo .. settings.port_hi :
      p \notin systemUsed /\ p \notin w.usedPorts }

LowestPort(S) == CHOOSE p \in S : \A q \in S : p <= q

\* findAvailablePort once getUsedPorts has answered systemUsed: [w, port],
\* port Null when it throws.
findAvailablePort(w, settings, systemUsed) ==
  LET free == FreePorts(w, settings, systemUsed)
  IN IF free = {} THEN [ w |-> w, port |-> Null ]
     ELSE [ w |-> [w EXCEPT !.usedPorts = @ \cup {LowestPort(free)}],
            port |-> LowestPort(free) ]

\* ------------------------------------------------------------ children
\* family: the address family of the socket the process listens on.
NoChild ==
  [ st |-> "none", port |-> Null, name |-> "", term |-> 0, kill |-> 0,
    family |-> "v4" ]

Alive(w, pid) == pid \in Pids /\ w.children[pid].st \in {"up", "listening"}

\* isProcessRunning: kill(pid, 0) succeeds.
isProcessRunning(w, pid) == Alive(w, pid)

\* checkHealth: something answers HTTP on the port.
checkHealth(w, port) ==
  \E pid \in Pids : w.children[pid].st = "listening" /\ w.children[pid].port = port

\* healthCheckCache.get(port) of a port that has no entry.
NoEntry == [ healthy |-> FALSE, timestamp |-> Null ]

\* checkHealthCached up to its await: the cached result when the entry is
\* younger than the TTL, otherwise a real probe is to be made.
checkHealthCached(w, port, t) ==
  LET cached == w.healthCheckCache[port]
  IN IF cached.timestamp # Null /\ t - cached.timestamp < HEALTH_CHECK_CACHE_TTL
     THEN [ fresh |-> TRUE, healthy |-> cached.healthy ]
     ELSE [ fresh |-> FALSE, healthy |-> FALSE ]

\* Ports the kernel reports as listening.
ListeningPorts(w) ==
  { w.children[pid].port : pid \in { q \in Pids : w.children[q].st = "listening" } }

\* getUsedPorts: `ss -tlnH` filtered to the range, column 4 (address:port)
\* cut at ":" with field 2 taken, parseInt, NaN dropped. Field 2 is the port
\* of "0.0.0.0:4000" and "*:4000"; of "[::]:4000" it is the empty string.
\* When the command fails the catch returns the empty set.
getUsedPorts(w, answers) ==
  IF ~answers THEN {}
  ELSE { w.children[pid].port :
           pid \in { q \in Pids : /\ w.children[q].st = "listening"
                                  /\ w.children[q].family = "v4" } }

Signal(w, pid, sig) ==
  IF Alive(w, pid)
  THEN IF sig = "SIGKILL"
       THEN [w EXCEPT !.children[pid].st = "dead", !.children[pid].kill = 1]
       ELSE [w EXCEPT !.children[pid].term = Min2(2, @ + 1)]
  ELSE w

\* ------------------------------------------------------------ idle timeout
Recent(requestHistory, t, threshold) ==
  Cardinality({ i \in 1 .. Len(requestHistory) : t - requestHistory[i] < threshold })

\* The activity score in tenths (1.0 is 10).
calculateActivityScore(requestHistory, t) ==
  CASE Recent(requestHistory, t, 30000) >= 3  -> 10
    [] Recent(requestHistory, t, 60000) >= 3  -> 8
    [] Recent(requestHistory, t, 120000) >= 3 -> 6
    [] Recent(requestHistory, t, 300000) >= 3 -> 4
    [] Recent(requestHistory, t, 600000) >= 3 -> 2
    [] OTHER -> 0

\* A dynamic timeout that is not clamped.
calculateDynamicTimeoutUnclamped(w, name, state, settings, t) ==
  IF ~settings.dynamic_timeout THEN settings.idle_timeout
  ELSE LET m == w.metrics[name]
           coldStartTime == IF m.cold_start_time # Null
                            THEN m.cold_start_time ELSE DefaultColdStart
           wsMultiplier == IF state.websocket_connections > 0 THEN 2 ELSE 1
           activityMultiplier == 10 + calculateActivityScore(m.request_history, t)
       IN ((BaseTimeout \div DefaultColdStart) * coldStartTime
             * wsMultiplier * activityMultiplier) \div 20

\* baseTimeout * (cold / 5000) * wsMultiplier * (0.5 + score * 0.5), with the
\* activity multiplier in twentieths; every division below is exact.
calculateDynamicTimeout(w, name, state, settings, t) ==
  IF ~settings.dynamic_timeout THEN settings.idle_timeout
  ELSE LET m == w.metrics[name]
           coldStartTime == IF m.cold_start_time # Null
                            THEN m.cold_start_time ELSE DefaultColdStart
           wsMultiplier == IF state.websocket_connections > 0 THEN 2 ELSE 1
           activityScore == calculateActivityScore(m.request_history, t)
           activityMultiplier == 10 + activityScore
           effectiveTimeout ==
             ((BaseTimeout \div DefaultColdStart) * coldStartTime
                * wsMultiplier * activityMultiplier) \div 20
       IN Max2(settings.min_timeout, Min2(settings.max_timeout, effectiveTimeout))

\* configs[name]?.idle_timeout: Null when the project is not in the config.
ConfigIdleTimeout(cfg, name) ==
  IF name \in DOMAIN cfg.projects THEN cfg.projects[name].idle_timeout ELSE Null

ConfigDisabled(cfg, name) ==
  name \in DOMAIN cfg.projects /\ cfg.projects[name].disabled

getEffectiveTimeout(w, cfg, name, settings, t) ==
  IF ~w.store[name].exists THEN settings.idle_timeout
  ELSE IF ConfigIdleTimeout(cfg, name) # Null
       THEN ConfigIdleTimeout(cfg, name)
       ELSE calculateDynamicTimeout(w, name, w.store[name], settings, t)

\* ------------------------------------------------------------ stopProject
\* A stopProject call waiting for its child to exit.
NoStop ==
  [ pc |-> "none", name |-> "", pid |-> Null, proc |-> Null,
    orphan |-> Null, port |-> Null ]

\* stopFinish without the release of the port.
stopFinishKeepsPort(w, rec) ==
  LET w1 == IF rec.proc # Null
            THEN [w EXCEPT !.processes[rec.name] = Null] ELSE w
      w2 == IF Truthy(rec.orphan)
            THEN [w1 EXCEPT !.orphanPids[rec.name] = Null] ELSE w1
  IN setProjectState(w2, rec.name,
       [ status |-> "stopped", pid |-> Null, port |-> Null, last_activity |-> Null ])

\* The code after the wait: forget the child, release the port, write stopped.
stopFinish(w, rec) ==
  LET w1 == IF rec.proc # Null
            THEN [w EXCEPT !.processes[rec.name] = Null] ELSE w
      w2 == IF Truthy(rec.orphan)
            THEN [w1 EXCEPT !.orphanPids[rec.name] = Null] ELSE w1
      w3 == IF Truthy(rec.port) THEN releasePort(w2, rec.port) ELSE w2
  IN setProjectState(w3, rec.name,
       [ status |-> "stopped", pid |-> Null, port |-> Null, last_activity |-> Null ])

\* A stopProject that sends SIGKILL where the code sends SIGTERM.
stopProjectKillsAtOnce(w, name) ==
  LET state == w.store[name] IN
  IF ~state.exists \/ state.status # "running" THEN [ w |-> w, rec |-> NoStop ]
  ELSE LET proc == w.processes[name]
           orphanPid == w.orphanPids[name]
           pid == IF proc # Null THEN proc
                  ELSE IF orphanPid # Null THEN orphanPid ELSE state.pid
           w1 == IF proc # Null \/ Truthy(pid) THEN Signal(w, pid, "SIGKILL") ELSE w
           rec == [ pc |-> "wait", name |-> name, pid |-> pid, proc |-> proc,
                    orphan |-> orphanPid, port |-> state.port ]
       IN IF Truthy(pid) /\ isProcessRunning(w1, pid)
          THEN [ w |-> w1, rec |-> rec ]
          ELSE [ w |-> stopFinish(w1, rec), rec |-> NoStop ]

\* stopProject up to its first wait: [w, rec]; rec.pc = "none" when it returned.
\* waitForProcessExit waits only for a child that is still running.
stopProject(w, name) ==
  LET state == w.store[name] IN
  IF ~state.exists \/ state.status # "running" THEN [ w |-> w, rec |-> NoStop ]
  ELSE LET proc == w.processes[name]
           orphanPid == w.orphanPids[name]
           pid == IF proc # Null THEN proc
                  ELSE IF orphanPid # Null THEN orphanPid ELSE state.pid
           w1 == IF proc # Null \/ Truthy(pid) THEN Signal(w, pid, "SIGTERM") ELSE w
           rec == [ pc |-> "wait", name |-> name, pid |-> pid, proc |-> proc,
                    orphan |-> orphanPid, port |-> state.port ]
       IN IF Truthy(pid) /\ isProcessRunning(w1, pid)
          THEN [ w |-> w1, rec |-> rec ]
          ELSE [ w |-> stopFinish(w1, rec), rec |-> NoStop ]

\* The next step of a waiting stopProject: the child has exited, or the wait
\* timed out and SIGKILL is sent, or the wait after SIGKILL has ended.
stopResume(w, rec) ==
  IF rec.pc = "wait" /\ isProcessRunning(w, rec.pid)
  THEN [ w |-> Signal(w, rec.pid, "SIGKILL"), rec |-> [rec EXCEPT !.pc = "killwait"] ]
  ELSE [ w |-> stopFinish(w, rec), rec |-> NoStop ]

\* ------------------------------------------------------------ startProject
\* startProject up to `await findAvailablePort`: [w, returned, port].
startProjectBegin(w, name) ==
  LET currentState == w.store[name]
      isRunning == /\ currentState.exists /\ currentState.status = "running"
                   /\ Truthy(currentState.pid) /\ Truthy(currentState.port)
  IN IF isRunning /\ isProcessRunning(w, currentState.pid)
     THEN [ w |-> w, returned |-> TRUE, port |-> currentState.port ]
     ELSE LET w1 == IF isRunning THEN releasePort(w, currentState.port) ELSE w
          IN [ w |-> [w1 EXCEPT !.orphanPids[name] = Null],
               returned |-> FALSE, port |-> Null ]

\* The state write after findAvailablePort, and the spawn.
startProjectSpawn(w, name, port, t) ==
  LET w2 == setProjectState(w, name,
              [ status |-> "starting", port |-> port, started_at |-> t ])
      pid == w.nextPid
  IN [w2 EXCEPT !.children[pid] = [ st |-> "up", port |-> port, name |-> name,
                                    term |-> 0, kill |-> 0,
                                    family |-> "v4" ],
                !.nextPid = pid + 1,
                !.processes[name] = pid]

\* spawn() threw: the state is written, nothing else happens.
startProjectSpawnThrows(w, name, port, t) ==
  setProjectState(w, name,
    [ status |-> "starting", port |-> port, started_at |-> t ])

\* The success branch with a state write that leaves the port out.
startProjectHealthyKeepsPort(w, name, port, pid, startTime, t) ==
  setProjectState(setColdStartTime(w, name, t - startTime), name,
    [ status |-> "running", pid |-> pid,
      last_activity |-> t, started_at |-> t ])

\* waitForHealthy answered true.
startProjectHealthy(w, name, port, pid, startTime, t) ==
  setProjectState(setColdStartTime(w, name, t - startTime), name,
    [ status |-> "running", pid |-> pid, port |-> port,
      last_activity |-> t, started_at |-> t ])

\* The failure branch without the release of the port.
startProjectTimeoutKeepsPort(w, name, port, pid) ==
  LET w1 == Signal(w, pid, "SIGTERM")
      w2 == [w1 EXCEPT !.processes[name] = Null]
  IN setProjectState(w2, name,
       [ status |-> "stopped", pid |-> Null, port |-> Null ])

\* waitForHealthy answered false.
startProjectTimeout(w, name, port, pid) ==
  LET w1 == Signal(w, pid, "SIGTERM")
      w2 == [w1 EXCEPT !.processes[name] = Null]
  IN setProjectState(releasePort(w2, port), name,
       [ status |-> "stopped", pid |-> Null, port |-> Null ])

\* ------------------------------------------------------------ proxy
FreeReq ==
  [ pc |-> "free", name |-> "", kind |-> "", port |-> Null, proc |-> Null,
    startTime |-> Null, settings |-> DEFAULT_SETTINGS ]

\* What the latest step answered to a client: nothing when a handler went on
\* waiting, or when the step was not a handler's.
NoProbe == [ op |-> "", name |-> "", result |-> Null ]

\* The handler returned a response: its status, and the port the request was
\* forwarded or upgraded to. 200 stands for the upstream's own response,
\* relayed by proxyRequest.
Response(kind, name, status, port) ==
  [ op |-> kind, name |-> name, result |-> status, port |-> port ]

\* startProject threw: the WebSocket branch catches it and answers 503; the
\* HTTP branch has no catch and serve() has no error handler, so the
\* rejected fetch becomes the server's own 500.
Failure(kind, name) ==
  Response(kind, name, IF kind = "ws" THEN 503 ELSE 500, Null)

NoConn ==
  [ client |-> "none", target |-> "none", name |-> "", port |-> Null,
    connected |-> FALSE, incs |-> 0, decs |-> 0, sent |-> 0,
    forwarded |-> << >> ]

ConnSlots == 1 .. MaxConn
Reqs == 1 .. MaxReq

\* A slot is free once both sides of its connection are closed.
FreeConnSlots ==
  { c \in ConnSlots : conn[c].client \in {"none", "closed"}
                      /\ conn[c].target \in {"none", "closed"} }

\* srv.upgrade and the open handler: the client side is open and a
\* WebSocket to the target is being connected.
Upgrade(name, targetPort) ==
  LET c == CHOOSE c \in FreeConnSlots : \A d \in FreeConnSlots : c <= d
  IN [conn EXCEPT ![c] = [ client |-> "open", target |-> "connecting",
                           name |-> name, port |-> targetPort,
                           connected |-> FALSE, incs |-> 0, decs |-> 0,
                           sent |-> 0, forwarded |-> << >> ]]

\* The handler's code after startProject returned `port`.
FinishStart(w, r, name, kind, port) ==
  LET w1 == markPortUsed(w, port) IN
  /\ req' = [req EXCEPT ![r] = FreeReq]
  /\ IF kind = "http"
     THEN /\ Commit(updateActivity(w1, name, now))
          /\ conn' = conn
          /\ probe' = Response(kind, name, 200, port)
     ELSE IF ~Truthy(w1.store[name].port)
          THEN /\ Commit(w1)
               /\ conn' = conn
               /\ probe' = Response(kind, name, 503, Null)
          ELSE /\ Commit(updateActivity(w1, name, now))
               /\ conn' = Upgrade(name, w1.store[name].port)
               /\ probe' = Response(kind, name, 101, w1.store[name].port)

\* The handler calls startProject: the WebSocket branch passes
\* currentSettings, which setConfig replaces; the HTTP branch passes
\* cfg.settings of startProxy's parameter.
StartCall(w, r, name, kind) ==
  LET b == startProjectBegin(w, name) IN
  IF b.returned THEN FinishStart(b.w, r, name, kind, b.port)
  ELSE /\ Commit(b.w)
       /\ conn' = conn
       /\ req' = [req EXCEPT ![r] = [ pc |-> "ports", name |-> name, kind |-> kind,
                                      port |-> Null, proc |-> Null,
                                      startTime |-> Null,
                                      settings |-> IF kind = "http"
                                                   THEN w.cfgSettings
                                                   ELSE config.settings ]]
       /\ probe' = NoProbe

\* A request for a known host arrives: fetch up to its first wait.
Arrive(r, name, kind) ==
  /\ daemon = "serving"
  /\ req[r].pc = "free"
  /\ \A q \in Reqs : q < r => req[q].pc # "free"
  /\ events < MaxEvents
  /\ name \in DOMAIN config.projects
  /\ kind = "ws" =>
       Cardinality({ q \in Reqs : req[q].kind = "ws" }) < Cardinality(FreeConnSlots)
  /\ events' = events + 1
  /\ LET state == store[name]
         running == state.exists /\ state.status = "running" /\ Truthy(state.port)
     IN IF running /\ kind = "http"
        THEN /\ req' = [req EXCEPT ![r] = [ pc |-> "probe", name |-> name,
                                            kind |-> kind, port |-> state.port,
                                            proc |-> Null, startTime |-> Null,
                                            settings |-> DEFAULT_SETTINGS ]]
             /\ probe' = NoProbe
             /\ Commit(World)
             /\ conn' = conn
        ELSE IF running
             THEN /\ Commit(updateActivity(World, name, now))
                  /\ conn' = Upgrade(name, state.port)
                  /\ req' = req
                  /\ probe' = Response(kind, name, 101, state.port)
             ELSE StartCall(World, r, name, kind)
  /\ UNCHANGED << now, yaml, config, scan, daemon, shut, idleStops >>

\* The health probe of a running project answered: proxy.
ProbeHealthy(r) ==
  /\ daemon # "exited"
  /\ req[r].pc = "probe"
  /\ checkHealth(World, req[r].port)
  /\ Commit(updateActivity(World, req[r].name, now))
  /\ req' = [req EXCEPT ![r] = FreeReq]
  /\ probe' = Response(req[r].kind, req[r].name, 200, req[r].port)
  /\ UNCHANGED << now, yaml, config, events, conn, scan, daemon, shut,
                  idleStops >>

\* The probe and its retries failed: fall through to the cold start.
ProbeFailed(r) ==
  /\ daemon # "exited"
  /\ req[r].pc = "probe"
  /\ ~checkHealth(World, req[r].port)
  /\ StartCall(World, r, req[r].name, req[r].kind)
  /\ UNCHANGED << now, yaml, config, events, scan, daemon, shut, idleStops >>

\* getUsedPorts answered: allocate, write `starting`, spawn.
AllocateAndSpawn(r) ==
  /\ daemon # "exited"
  /\ req[r].pc = "ports"
  /\ nextPid <= MaxSpawn
  /\ \E answers \in BOOLEAN, spawns \in BOOLEAN :
       LET systemUsed == getUsedPorts(World, answers)
           a == findAvailablePort(World, req[r].settings, systemUsed)
           name == req[r].name
       IN IF a.port = Null
          THEN /\ Commit(a.w)
               /\ req' = [req EXCEPT ![r] = FreeReq]
               /\ probe' = Failure(req[r].kind, name)
          ELSE IF spawns
               THEN /\ Commit(startProjectSpawn(a.w, name, a.port, now))
                    /\ req' = [req EXCEPT ![r].pc = "healthy", ![r].port = a.port,
                                          ![r].proc = nextPid, ![r].startTime = now]
                    /\ probe' = NoProbe
               ELSE /\ Commit(startProjectSpawnThrows(a.w, name, a.port, now))
                    /\ req' = [req EXCEPT ![r] = FreeReq]
                    /\ probe' = Failure(req[r].kind, name)
  /\ UNCHANGED << now, yaml, config, events, conn, scan, daemon, shut,
                  idleStops >>

\* waitForHealthy returned true.
BecameHealthy(r) ==
  /\ daemon # "exited"
  /\ req[r].pc = "healthy"
  /\ checkHealth(World, req[r].port)
  /\ FinishStart(startProjectHealthy(World, req[r].name, req[r].port, req[r].proc,
                                     req[r].startTime, now),
                 r, req[r].name, req[r].kind, req[r].port)
  /\ UNCHANGED << now, yaml, config, events, scan, daemon, shut, idleStops >>

\* waitForHealthy returned false after settings.startup_timeout.
StartTimedOut(r) ==
  /\ daemon # "exited"
  /\ req[r].pc = "healthy"
  /\ ~checkHealth(World, req[r].port)
  /\ Commit(startProjectTimeout(World, req[r].name, req[r].port, req[r].proc))
  /\ req' = [req EXCEPT ![r] = FreeReq]
  /\ probe' = Failure(req[r].kind, req[r].name)
  /\ UNCHANGED << now, yaml, config, events, conn, scan, daemon, shut,
                  idleStops >>

\* ------------------------------------------------------------ WebSocket bridge
\* The close handler of the client side.
CloseHandler(w, cn, c) ==
  IF cn[c].connected THEN decrementWebSockets(w, cn[c].name, now) ELSE w

\* targetWs.onopen.
TargetOpen(c) ==
  /\ daemon # "exited"
  /\ conn[c].target = "connecting"
  /\ checkHealth(World, conn[c].port)
  /\ Commit(incrementWebSockets(World, conn[c].name, now))
  /\ conn' = [conn EXCEPT ![c].target = "open", ![c].connected = TRUE,
                          ![c].incs = @ + 1]
  /\ UNCHANGED << now, yaml, config, req, events, scan, daemon, shut,
                  idleStops >>
  /\ probe' = NoProbe

\* targetWs.onerror / onclose, the target being gone: ws.close(), which runs
\* the close handler when the client side is still open.
TargetClosed(c) ==
  /\ daemon # "exited"
  /\ conn[c].target \in {"connecting", "open"}
  /\ ~checkHealth(World, conn[c].port)
  /\ IF conn[c].client = "open"
     THEN /\ Commit(CloseHandler(World, conn, c))
          /\ conn' = [conn EXCEPT ![c].target = "closed", ![c].client = "closed",
                                  ![c].decs = IF conn[c].connected THEN @ + 1 ELSE @]
     ELSE /\ Commit(World)
          /\ conn' = [conn EXCEPT ![c].target = "closed"]
  /\ UNCHANGED << now, yaml, config, req, events, scan, daemon, shut,
                  idleStops >>
  /\ probe' = NoProbe

\* The client closes: the close handler, then targetWs?.close(), where
\* targetWs is set only once the target has opened.
ClientClosed(c) ==
  /\ daemon # "exited"
  /\ conn[c].client = "open"
  /\ events < MaxEvents
  /\ events' = events + 1
  /\ Commit(CloseHandler(World, conn, c))
  /\ conn' = [conn EXCEPT ![c].client = "closed",
                          ![c].decs = IF conn[c].connected THEN @ + 1 ELSE @,
                          ![c].target = IF conn[c].connected THEN "closed" ELSE @]
  /\ UNCHANGED << now, yaml, config, req, scan, daemon, shut, idleStops >>
  /\ probe' = NoProbe

\* ------------------------------------------------------------ idle scan
ScanIds == 1 .. MaxScans

NoScan ==
  [ pc |-> "unused", states |-> [n \in Projects |-> NoRow], order |-> << >>,
    idx |-> 0, at |-> Null, stop |-> NoStop ]

\* The callback's loop from entry sc.idx of its snapshot, at time t, up to a
\* stopProject that waits or to the end: [w, scan, log].
RECURSIVE ScanLoop(_, _, _, _)
ScanLoop(w, sc, log, t) ==
  IF sc.idx > Len(sc.order) THEN [ w |-> w, scan |-> NoScan, log |-> log ]
  ELSE
    LET name == sc.order[sc.idx]
        state == sc.states[name]
        next == [sc EXCEPT !.idx = @ + 1]
    IN IF state.status # "running" THEN ScanLoop(w, next, log, t)
       ELSE IF ConfigDisabled(config, name) THEN ScanLoop(w, next, log, t)
       ELSE IF state.websocket_connections > 0
            THEN ScanLoop(updateActivity(w, name, t), next, log, t)
       ELSE IF ~Truthy(state.last_activity) THEN ScanLoop(w, next, log, t)
       ELSE IF ConfigIdleTimeout(config, name) = 0 THEN ScanLoop(w, next, log, t)
       ELSE
         LET idleTime == sc.at - state.last_activity
             timeout == IF ConfigIdleTimeout(config, name) # Null
                        THEN ConfigIdleTimeout(config, name)
                        ELSE calculateDynamicTimeout(w, name, state,
                                                     config.settings, t)
         IN IF idleTime >= timeout
            THEN LET r == stopProject(w, name)
                     log2 == log \cup
                       {[ name |-> name,
                          ws |-> w.store[name].websocket_connections,
                          timeout |-> timeout ]}
                 IN IF r.rec.pc = "none" THEN ScanLoop(r.w, next, log2, t)
                    ELSE [ w |-> r.w,
                           scan |-> [next EXCEPT !.pc = "stopping", !.stop = r.rec],
                           log |-> log2 ]
            ELSE ScanLoop(w, next, log, t)

\* A callback waits at most GRACEFUL_SHUTDOWN_TIMEOUT + KillWait in each
\* stopProject it calls.
ScanWaitLimit == Cardinality(Projects) * (GRACEFUL_SHUTDOWN_TIMEOUT + KillWait)

\* The interval timer fires the callback, scan_interval after the last time;
\* an earlier callback is still waiting only if the interval is short enough.
ScanStart(i) ==
  /\ daemon = "serving"
  /\ (\E j \in ScanIds : scan[j].pc = "stopping")
       => config.settings.scan_interval < ScanWaitLimit
  /\ scan[i].pc = "unused"
  /\ \A j \in ScanIds : j < i => scan[j].pc # "unused"
  /\ events < MaxEvents
  /\ events' = events + 1
  /\ now' = now + config.settings.scan_interval
  /\ LET sc == [ pc |-> "unused", states |-> store, order |-> RowOrder(store, 1),
                 idx |-> 1, at |-> now', stop |-> NoStop ]
         r == ScanLoop(World, sc, idleStops, now')
     IN /\ Commit(r.w)
        /\ scan' = [scan EXCEPT ![i] = r.scan]
        /\ idleStops' = r.log
  /\ UNCHANGED << yaml, config, req, conn, daemon, shut >>
  /\ probe' = NoProbe

\* The stopProject the callback awaits goes on; when it returns, the loop does.
ScanResume(i) ==
  /\ daemon # "exited"
  /\ scan[i].pc = "stopping"
  /\ LET s == stopResume(World, scan[i].stop)
     IN IF s.rec.pc # "none"
        THEN /\ Commit(s.w)
             /\ scan' = [scan EXCEPT ![i].stop = s.rec]
             /\ idleStops' = idleStops
        ELSE LET r == ScanLoop(s.w, [scan[i] EXCEPT !.stop = NoStop], idleStops,
                               now)
             IN /\ Commit(r.w)
                /\ scan' = [scan EXCEPT ![i] = r.scan]
                /\ idleStops' = r.log
  /\ UNCHANGED << now, yaml, config, req, events, conn, daemon, shut >>
  /\ probe' = NoProbe

\* ------------------------------------------------------------ environment
\* The child starts listening on the port it was given, if nobody else does.
ChildListens(pid) ==
  /\ children[pid].st = "up"
  /\ ~checkHealth(World, children[pid].port)
  /\ children' = [children EXCEPT ![pid].st = "listening"]
  /\ UNCHANGED << now, yaml, config, store, metrics, usedPorts,
                  healthCheckCache, cfgSettings, 
                  processes,
                  orphanPids, nextPid, req, events, conn, scan, daemon, shut,
                  idleStops >>
  /\ probe' = NoProbe

\* The child exits on the SIGTERM it received.
ChildExits(pid) ==
  /\ children[pid].st \in {"up", "listening"}
  /\ children[pid].term > 0
  /\ children' = [children EXCEPT ![pid].st = "dead"]
  /\ UNCHANGED << now, yaml, config, store, metrics, usedPorts,
                  healthCheckCache, cfgSettings, 
                  processes,
                  orphanPids, nextPid, req, events, conn, scan, daemon, shut,
                  idleStops >>
  /\ probe' = NoProbe

\* The child crashes.
ChildCrashes(pid) ==
  /\ children[pid].st \in {"up", "listening"}
  /\ children[pid].term = 0
  /\ events < MaxEvents
  /\ events' = events + 1
  /\ children' = [children EXCEPT ![pid].st = "dead"]
  /\ UNCHANGED << now, yaml, config, store, metrics, usedPorts,
                  healthCheckCache, cfgSettings, 
                  processes,
                  orphanPids, nextPid, req, conn, scan, daemon, shut,
                  idleStops >>
  /\ probe' = NoProbe

\* The child stops answering on its port while its process stays alive (the
\* server under the `sh -c` wrapper died or hangs): checkHealth fails again,
\* isProcessRunning still succeeds.
ChildHangs(pid) ==
  /\ children[pid].st = "listening"
  /\ children[pid].term = 0
  /\ events < MaxEvents
  /\ events' = events + 1
  /\ children' = [children EXCEPT ![pid].st = "up"]
  /\ UNCHANGED << now, yaml, config, store, metrics, usedPorts,
                  healthCheckCache, cfgSettings, 
                  processes,
                  orphanPids, nextPid, req, conn, scan, daemon, shut,
                  idleStops >>
  /\ probe' = NoProbe

\* ------------------------------------------------------------ shutdown
\* Promise.all(names.map(stopProject)): every call runs to its first wait.
RECURSIVE StopAll(_, _, _)
StopAll(w, names, recs) ==
  IF names = {} THEN [ w |-> w, recs |-> recs ]
  ELSE LET n == CHOOSE n \in names : TRUE
           r == stopProject(w, n)
       IN StopAll(r.w, names \ {n}, [recs EXCEPT ![n] = r.rec])

\* process.exit(0) once stopAllProjects has returned: the daemon's memory and
\* every handler in flight are gone; the state store and the children stay.
Exit(w, recs) ==
  /\ Commit([w EXCEPT !.usedPorts = {},
                      !.healthCheckCache = [p \in Ports |-> NoEntry],
                      !.processes = [n \in Projects |-> Null],
                      !.orphanPids = [n \in Projects |-> Null]])
  /\ shut' = recs
  /\ daemon' = "exited"
  /\ req' = [r \in Reqs |-> FreeReq]
  /\ scan' = [i \in ScanIds |-> NoScan]
  /\ conn' = [c \in ConnSlots |-> IF conn[c].client = "none" THEN NoConn
                                   ELSE [conn[c] EXCEPT !.client = "closed",
                                                        !.target = "closed"]]

\* The orphan loop of stopAllProjects after the wait of one entry: the port
\* the row had at the top of the pass is released and `stopped` is written.
orphanFinish(w, rec) ==
  LET w1 == IF Truthy(rec.port) THEN releasePort(w, rec.port) ELSE w
  IN setProjectState(w1, rec.name,
       [ status |-> "stopped", pid |-> Null, port |-> Null, last_activity |-> Null ])

\* `for (const [name, pid] of orphanPids)` from the k-th row on (orphans are
\* adopted in row order), up to the first wait: [w, rec]. process.kill throws
\* for a process that is gone and the pass goes to the state update; after
\* the loop orphanPids is cleared.
RECURSIVE stopOrphansFrom(_, _)
stopOrphansFrom(w, k) ==
  IF k > RowCount(w.store)
  THEN [ w |-> [w EXCEPT !.orphanPids = [n \in Projects |-> Null]], rec |-> NoStop ]
  ELSE LET name == RowOrder(w.store, 1)[k]
           pid == w.orphanPids[name]
           rec == [ pc |-> "orphanwait", name |-> name, pid |-> pid, proc |-> Null,
                    orphan |-> pid, port |-> w.store[name].port ]
       IN IF pid = Null THEN stopOrphansFrom(w, k + 1)
          ELSE IF Alive(w, pid)
               THEN [ w |-> Signal(w, pid, "SIGTERM"), rec |-> rec ]
               ELSE stopOrphansFrom(orphanFinish(w, rec), k + 1)

\* The orphan loop after a wait: SIGKILL and the second wait, or the state
\* update and the next entry.
orphanResume(w, rec) ==
  IF rec.pc = "orphanwait" /\ isProcessRunning(w, rec.pid)
  THEN [ w |-> Signal(w, rec.pid, "SIGKILL"),
         rec |-> [rec EXCEPT !.pc = "orphankillwait"] ]
  ELSE stopOrphansFrom(orphanFinish(w, rec), w.store[rec.name].rowid + 1)

\* The orphan loop waits for a process, or has ended and the daemon exits.
OrphanStep(r, recs) ==
  IF r.rec.pc = "none"
  THEN Exit(r.w, recs)
  ELSE /\ Commit(r.w)
       /\ shut' = [recs EXCEPT ![r.rec.name] = r.rec]
       /\ daemon' = "stopping"
       /\ UNCHANGED << req, scan, conn >>

\* The shutdown handler goes on to the orphan loop when every stopProject of
\* the Promise.all has returned; until then the daemon keeps serving the
\* handlers in flight.
ShutdownStep(w, recs) ==
  IF \A n \in Projects : recs[n].pc = "none"
  THEN OrphanStep(stopOrphansFrom(w, 1), recs)
  ELSE /\ Commit(w)
       /\ shut' = recs
       /\ daemon' = "stopping"
       /\ UNCHANGED << req, scan, conn >>

\* SIGINT or SIGTERM: stop the idle scan and the listener, stopAllProjects.
Shutdown ==
  /\ daemon = "serving"
  /\ events < MaxEvents
  /\ events' = events + 1
  /\ LET r == StopAll(World, { n \in Projects : processes[n] # Null },
                      [n \in Projects |-> NoStop])
     IN ShutdownStep(r.w, r.recs)
  /\ UNCHANGED << now, yaml, config, idleStops >>
  /\ probe' = NoProbe

\* A stopProject of the shutdown goes on after its wait.
ShutdownResume(n) ==
  /\ daemon = "stopping"
  /\ shut[n].pc # "none"
  /\ IF shut[n].pc \in {"orphanwait", "orphankillwait"}
     THEN OrphanStep(orphanResume(World, shut[n]), [shut EXCEPT ![n] = NoStop])
     ELSE LET s == stopResume(World, shut[n])
          IN ShutdownStep(s.w, [shut EXCEPT ![n] = s.rec])
  /\ UNCHANGED << now, yaml, config, events, idleStops >>
  /\ probe' = NoProbe

\* ------------------------------------------------------------ specification
\* The configuration file of the runs: alpha declares idle_timeout 0, beta
\* declares none, and the default idle timeout is one scan interval.
TheYaml ==
  [ settings |-> [ idle_timeout |-> RawStr(30, "s"), dynamic_timeout |-> "absent",
                   min_timeout |-> RawAbsent, max_timeout |-> RawAbsent,
                   scan_interval |-> RawAbsent,
                   port_lo |-> MinPort, port_hi |-> MinPort + NumPorts - 1 ],
    projects |-> [ n \in Projects |->
                   [ idle_timeout |-> IF n = "alpha" THEN RawNum(0) ELSE RawAbsent,
                     disabled |-> "absent" ] ] ]

InitMemory ==
  /\ usedPorts = {}
  /\ processes = [n \in Projects |-> Null]
  /\ orphanPids = [n \in Projects |-> Null]
  /\ req = [r \in Reqs |-> FreeReq]
  /\ events = 0
  /\ conn = [c \in ConnSlots |-> NoConn]
  /\ scan = [i \in ScanIds |-> NoScan]
  /\ daemon = "serving"
  /\ shut = [n \in Projects |-> NoStop]
  /\ idleStops = {}
  /\ healthCheckCache = [p \in Ports |-> NoEntry]
  /\ cfgSettings = config.settings
  /\ probe = NoProbe

\* A fresh install: an empty state store, the daemon just started.
Init ==
  /\ now = StartClock
  /\ yaml = TheYaml
  /\ config = loadConfig(yaml)
  /\ store = [n \in Projects |-> NoRow]
  /\ metrics = [n \in Projects |-> NoMetrics]
  /\ children = [p \in Pids |-> NoChild]
  /\ nextPid = 1
  /\ InitMemory

Next ==
  \/ \E r \in Reqs, n \in Projects, k \in {"http", "ws"} : Arrive(r, n, k)
  \/ \E r \in Reqs : ProbeHealthy(r)
  \/ \E r \in Reqs : ProbeFailed(r)
  \/ \E r \in Reqs : AllocateAndSpawn(r)
  \/ \E r \in Reqs : BecameHealthy(r)
  \/ \E r \in Reqs : StartTimedOut(r)
  \/ \E c \in ConnSlots : TargetOpen(c)
  \/ \E c \in ConnSlots : TargetClosed(c)
  \/ \E c \in ConnSlots : ClientClosed(c)
  \/ \E i \in ScanIds : ScanStart(i)
  \/ \E i \in ScanIds : ScanResume(i)
  \/ \E p \in Pids : ChildListens(p)
  \/ \E p \in Pids : ChildExits(p)
  \/ \E p \in Pids : ChildCrashes(p)
  \/ Shutdown
  \/ \E n \in Projects : ShutdownResume(n)

Spec == Init /\ [][Next]_vars

\* ------------------------------------------------------------ the store, called directly
\* The partial states the daemon passes to setProjectState.
StatePartial(k, t) ==
  CASE k = 1 -> [ status |-> "starting", port |-> MinPort, started_at |-> t ]
    [] k = 2 -> [ status |-> "running", pid |-> 1, port |-> MinPort,
                  last_activity |-> t, started_at |-> t ]
    [] k = 3 -> [ status |-> "stopped", pid |-> Null, port |-> Null ]
    [] OTHER -> [ status |-> "stopped", pid |-> Null, port |-> Null,
                  websocket_connections |-> 0 ]

\* reconcileOrphanProcesses on one row whose process, if any, is not alive.
reconcileCleaned(w, name) ==
  LET state == w.store[name]
      cleaned == setProjectState(w, name,
                   [ status |-> "stopped", pid |-> Null, port |-> Null,
                     websocket_connections |-> 0 ])
  IN IF state.status = "starting" \/ (state.status = "running" /\ Truthy(state.pid))
     THEN IF Truthy(state.port) THEN releasePort(cleaned, state.port) ELSE cleaned
     ELSE w

\* A direct call changes the world and nothing else; probe keeps the call and
\* what it saw or returned.
Call(w, op, name, result) ==
  /\ events < MaxEvents
  /\ events' = events + 1
  /\ Commit(w)
  /\ probe' = [ op |-> op, name |-> name, result |-> result ]
  /\ UNCHANGED << now, yaml, config, req, conn, scan, daemon, shut, idleStops >>

CallSetProjectState(n, k) ==
  Call(setProjectState(World, n, StatePartial(k, now)), "setProjectState", n, k)

CallIncrementWebSockets(n) ==
  Call(incrementWebSockets(World, n, now), "incrementWebSockets", n,
       store[n].websocket_connections)

CallDecrementWebSockets(n) ==
  Call(decrementWebSockets(World, n, now), "decrementWebSockets", n,
       store[n].websocket_connections)

CallStopProject(n) ==
  LET r == stopProject(World, n) IN
  /\ r.rec.pc = "none"
  /\ Call(r.w, "stopProject", n, store[n].websocket_connections)

CallReconcile(n) ==
  /\ store[n].exists
  /\ ~Alive(World, store[n].pid)
  /\ Call(reconcileCleaned(World, n), "reconcileOrphanProcesses", n,
          store[n].websocket_connections)

NextStore ==
  \/ \E n \in Projects, k \in 1 .. 4 : CallSetProjectState(n, k)
  \/ \E n \in Projects : CallIncrementWebSockets(n)
  \/ \E n \in Projects : CallDecrementWebSockets(n)
  \/ \E n \in Projects : CallStopProject(n)
  \/ \E n \in Projects : CallReconcile(n)

SpecStore == Init /\ [][NextStore]_vars

\* ------------------------------------------------------------ the metrics, called directly
\* The request histories a daemon can have written by StartClock: ascending
\* timestamps, at most HistoryLimit of them.
HistoryInputs ==
  { [i \in 1 .. k |-> StartClock - (k - i) * 1000] :
      k \in {0, 1, HistoryLimit - 1, HistoryLimit} }

InitHistory ==
  /\ now = StartClock
  /\ yaml = TheYaml
  /\ config = loadConfig(yaml)
  /\ store = [n \in Projects |->
               [DefaultRow EXCEPT !.rowid = IF n = "alpha" THEN 1 ELSE 2,
                                  !.status = IF n = "alpha" THEN "running" ELSE "stopped",
                                  !.port = IF n = "alpha" THEN MinPort ELSE Null,
                                  !.pid = IF n = "alpha" THEN 1 ELSE Null,
                                  !.last_activity = IF n = "alpha" THEN StartClock ELSE Null,
                                  !.started_at = StartClock]]
  /\ \E known \in BOOLEAN, cold \in {Null, 0, 1000}, history \in HistoryInputs :
       /\ ~known => cold = Null /\ history = << >>
       /\ metrics = [n \in Projects |->
                      IF n = "alpha" /\ known
                      THEN [ exists |-> TRUE, cold_start_time |-> cold,
                             request_history |-> history ]
                      ELSE NoMetrics]
  /\ children = [p \in Pids |->
                  IF p = 1 THEN [NoChild EXCEPT !.st = "listening", !.port = MinPort,
                                                !.name = "alpha"]
                  ELSE NoChild]
  /\ nextPid = 2
  /\ InitMemory

CallUpdateActivity(n) ==
  Call(updateActivity(World, n, now), "updateActivity", n,
       Len(metrics[n].request_history))

CallSetColdStartTime(n, time) ==
  Call(setColdStartTime(World, n, time), "setColdStartTime", n, time)

\* Time passes between two calls.
TimePasses ==
  /\ events < MaxEvents
  /\ events' = events + 1
  /\ now' = now + ClockStep
  /\ probe' = NoProbe
  /\ UNCHANGED << yaml, config, store, metrics, usedPorts, healthCheckCache, cfgSettings,
                  processes, orphanPids,
                  children, nextPid, req, conn, scan, daemon, shut, idleStops >>

NextHistory ==
  \/ \E n \in Projects : CallUpdateActivity(n)
  \/ \E n \in Projects, time \in {0, 1000} : CallSetColdStartTime(n, time)
  \/ TimePasses

SpecHistory == InitHistory /\ [][NextHistory]_vars

\* ------------------------------------------------------------ the allocator, called directly
\* Any reservation set, and up to two processes of the host that listen on
\* ports of the range, on an IPv4 or an IPv6 socket.
InitPorts ==
  /\ now = StartClock
  /\ yaml = TheYaml
  /\ config = loadConfig(yaml)
  /\ store = [n \in Projects |-> NoRow]
  /\ metrics = [n \in Projects |-> NoMetrics]
  /\ \E listens \in [1 .. 2 -> BOOLEAN], port \in [1 .. 2 -> Ports],
        family \in [1 .. 2 -> {"v4", "v6"}] :
       /\ \A p \in 1 .. 2 : ~listens[p] => port[p] = MinPort /\ family[p] = "v4"
       /\ children = [p \in Pids |->
                       IF p \in 1 .. 2 /\ listens[p]
                       THEN [NoChild EXCEPT !.st = "listening", !.port = port[p],
                                            !.name = "host", !.family = family[p]]
                       ELSE NoChild]
  /\ nextPid = 3
  /\ usedPorts \in SUBSET Ports
  /\ processes = [n \in Projects |-> Null]
  /\ orphanPids = [n \in Projects |-> Null]
  /\ req = [r \in Reqs |-> FreeReq]
  /\ events = 0
  /\ conn = [c \in ConnSlots |-> NoConn]
  /\ scan = [i \in ScanIds |-> NoScan]
  /\ daemon = "serving"
  /\ shut = [n \in Projects |-> NoStop]
  /\ idleStops = {}
  /\ healthCheckCache = [p \in Ports |-> NoEntry]
  /\ cfgSettings = config.settings
  /\ probe = NoProbe

\* findAvailablePort is called; probe keeps the port it returned, Null when
\* it threw.
CallFindAvailablePort(answers) ==
  LET a == findAvailablePort(World, config.settings, getUsedPorts(World, answers))
  IN Call(a.w, "findAvailablePort", "", a.port)

CallReleasePort(port) ==
  Call(releasePort(World, port), "releasePort", "", port)

NextPorts ==
  \/ \E answers \in BOOLEAN : CallFindAvailablePort(answers)
  \/ \E port \in Ports : CallReleasePort(port)

SpecPorts == InitPorts /\ [][NextPorts]_vars

\* ------------------------------------------------------------ getEffectiveTimeout, called directly
\* The time of the query, and request histories that end before it.
QueryTime == 30 * ClockStep

Histories ==
  { [i \in 1 .. k |-> QueryTime - age] :
      k \in 0 .. MaxHistory, age \in {10000, 100000, 400000} }

\* Configuration files: any settings for the timeouts, and "alpha" declared
\* with or without an idle_timeout, or not declared.
TimeoutYamls ==
  { [ settings |-> [ idle_timeout |-> it, dynamic_timeout |-> dt,
                     min_timeout |-> lo, max_timeout |-> hi,
                     scan_interval |-> RawAbsent,
                     port_lo |-> MinPort, port_hi |-> MinPort + NumPorts - 1 ],
      projects |-> [n \in declared |-> [ idle_timeout |-> pit,
                                         disabled |-> "absent" ]] ] :
      it \in {RawAbsent, RawStr(30, "s")},
      dt \in {"absent", "true", "false"},
      lo \in {RawAbsent, RawStr(1, "h")},
      hi \in {RawAbsent, RawStr(1, "m")},
      declared \in {{}, {"alpha"}},
      pit \in {RawAbsent, RawNum(0), RawStr(1, "h")} }

InitTimeout ==
  /\ now = QueryTime
  /\ yaml \in TimeoutYamls
  /\ config = loadConfig(yaml)
  /\ \E row \in BOOLEAN, ws \in {0, 1} :
       store = [n \in Projects |->
                 IF n = "alpha" /\ row
                 THEN [DefaultRow EXCEPT !.rowid = 1, !.status = "running",
                                         !.port = MinPort, !.pid = 1,
                                         !.last_activity = StartClock,
                                         !.started_at = StartClock,
                                         !.websocket_connections = ws]
                 ELSE NoRow]
  /\ \E cold \in {Null, 1000, 60000}, history \in Histories :
       metrics = [n \in Projects |->
                   IF n = "alpha"
                   THEN [ exists |-> TRUE, cold_start_time |-> cold,
                          request_history |-> history ]
                   ELSE NoMetrics]
  /\ children = [p \in Pids |-> NoChild]
  /\ nextPid = 1
  /\ InitMemory

QueryEffectiveTimeout(n) ==
  /\ probe' = [ op |-> "getEffectiveTimeout", name |-> n,
                result |-> getEffectiveTimeout(World, config, n,
                                               config.settings, now) ]
  /\ UNCHANGED << now, yaml, config, store, metrics, usedPorts,
                  healthCheckCache, cfgSettings, 
                  processes,
                  orphanPids, children, nextPid, req, events, conn, scan,
                  daemon, shut, idleStops >>

NextTimeout == \E n \in Projects : QueryEffectiveTimeout(n)

SpecTimeout == InitTimeout /\ [][NextTimeout]_vars

\* ------------------------------------------------------------ cold starts alone
\* The proxy and startProject with no idle scan and no shutdown, under
\* requests for one project.
ArriveForBeta(r, kind) == events < MaxStartEvents /\ Arrive(r, "beta", kind)

CrashDuringStart(pid) == events < MaxStartEvents /\ ChildCrashes(pid)

HangDuringStart(pid) == events < MaxStartEvents /\ ChildHangs(pid)

NextStart ==
  \/ \E r \in Reqs, k \in {"http", "ws"} : ArriveForBeta(r, k)
  \/ \E r \in Reqs : ProbeHealthy(r)
  \/ \E r \in Reqs : ProbeFailed(r)
  \/ \E r \in Reqs : AllocateAndSpawn(r)
  \/ \E r \in Reqs : BecameHealthy(r)
  \/ \E r \in Reqs : StartTimedOut(r)
  \/ \E p \in Pids : ChildListens(p)
  \/ \E p \in Pids : ChildExits(p)
  \/ \E p \in Pids : CrashDuringStart(p)
  \/ \E p \in Pids : HangDuringStart(p)

SpecStart == Init /\ [][NextStart]_vars

\* The same under fair scheduling: every probe is answered and every timer
\* fires, so a handler that can go on does.
FairStart ==
  \A r \in Reqs :
    /\ WF_vars(ProbeHealthy(r)) /\ WF_vars(ProbeFailed(r))
    /\ WF_vars(AllocateAndSpawn(r))
    /\ WF_vars(BecameHealthy(r)) /\ WF_vars(StartTimedOut(r))

SpecStartFair == Init /\ [][NextStart]_vars /\ FairStart

\* ------------------------------------------------------------ stopProject, called directly
\* How the daemon knows the process of a running project: a child it spawned,
\* an orphan it adopted, or the pid of the state row alone.
TrackModes == {"managed", "orphan", "statepid", "stopped", "none"}

ProjectPid(n) == IF n = "alpha" THEN 1 ELSE 2

\* Each project is running and tracked in one of the ways, or is stopped, or
\* has no row; the children of the running ones are alive.
InitStop ==
  /\ now = StartClock
  /\ yaml = TheYaml
  /\ config = loadConfig(yaml)
  /\ \E mode \in [Projects -> TrackModes] :
       LET running(n) == mode[n] \in {"managed", "orphan", "statepid"}
           k(n) == ProjectPid(n)
       IN /\ store = [n \in Projects |->
                       IF running(n)
                       THEN [DefaultRow EXCEPT !.rowid = k(n), !.status = "running",
                                               !.port = MinPort + k(n) - 1,
                                               !.pid = k(n),
                                               !.last_activity = StartClock,
                                               !.started_at = StartClock]
                       ELSE IF mode[n] = "stopped"
                            THEN [DefaultRow EXCEPT !.rowid = k(n)]
                            ELSE NoRow]
          /\ mode["alpha"] = "none" => mode["beta"] = "none"
          /\ metrics = [n \in Projects |-> NoMetrics]
          /\ children = [p \in Pids |->
                          IF \E n \in Projects : running(n) /\ k(n) = p
                          THEN [NoChild EXCEPT
                                  !.st = "listening", !.port = MinPort + p - 1,
                                  !.name = CHOOSE n \in Projects : k(n) = p]
                          ELSE NoChild]
          /\ usedPorts = { MinPort + k(n) - 1 : n \in { m \in Projects : running(m) } }
          /\ processes = [n \in Projects |->
                           IF mode[n] = "managed" THEN k(n) ELSE Null]
          /\ orphanPids = [n \in Projects |->
                            IF mode[n] = "orphan" THEN k(n) ELSE Null]
  /\ nextPid = 3
  /\ req = [r \in Reqs |-> FreeReq]
  /\ events = 0
  /\ conn = [c \in ConnSlots |-> NoConn]
  /\ scan = [i \in ScanIds |-> NoScan]
  /\ daemon = "serving"
  /\ shut = [n \in Projects |-> NoStop]
  /\ idleStops = {}
  /\ healthCheckCache = [p \in Ports |-> NoEntry]
  /\ cfgSettings = config.settings
  /\ probe = NoProbe

\* stopProject(n) is called and runs to its first wait, or returns at once.
StopCalled(n) ==
  /\ shut[n].pc = "none"
  /\ events < MaxEvents
  /\ events' = events + 1
  /\ LET r == stopProject(World, n)
     IN /\ Commit(r.w)
        /\ shut' = [shut EXCEPT ![n] = r.rec]
        /\ probe' = [ op |-> "stopProject", name |-> n,
                      result |-> IF r.rec.pc = "none" THEN "returned" ELSE "waiting" ]
  /\ UNCHANGED << now, yaml, config, req, conn, scan, daemon, idleStops >>

\* The call goes on after a wait: SIGKILL and the second wait, or the return.
StopGoesOn(n) ==
  /\ shut[n].pc # "none"
  /\ LET s == stopResume(World, shut[n])
     IN /\ Commit(s.w)
        /\ shut' = [shut EXCEPT ![n] = s.rec]
        /\ probe' = [ op |-> "stopProject", name |-> n,
                      result |-> IF s.rec.pc = "none" THEN "returned" ELSE "waiting" ]
  /\ UNCHANGED << now, yaml, config, req, events, conn, scan, daemon, idleStops >>

NextStop ==
  \/ \E n \in Projects : StopCalled(n)
  \/ \E n \in Projects : StopGoesOn(n)
  \/ \E p \in Pids : ChildExits(p)
  \/ \E p \in Pids : ChildCrashes(p)

SpecStop == InitStop /\ [][NextStop]_vars

\* ------------------------------------------------------------ startup after a restart
\* initializePortsFromState: the ports of the rows that read `running`.
initializePortsFromState(w) ==
  [w EXCEPT !.usedPorts =
     @ \cup { w.store[n].port :
              n \in { m \in Projects : /\ w.store[m].exists
                                       /\ w.store[m].port # Null
                                       /\ w.store[m].status = "running" } }]

\* SIGTERM, the wait of GRACEFUL_SHUTDOWN_TIMEOUT, SIGKILL when the process is
\* still there; process.kill throws for a process that is gone. `exits` are the
\* processes that obey SIGTERM within the wait.
killWithEscalation(w, pid, exits) ==
  IF ~Alive(w, pid) THEN w
  ELSE LET w1 == Signal(w, pid, "SIGTERM")
       IN IF pid \in exits THEN [w1 EXCEPT !.children[pid].st = "dead"]
          ELSE Signal(w1, pid, "SIGKILL")

\* What reconcileOrphanProcesses writes for a row it cleans.
CleanedPartial ==
  [ status |-> "stopped", pid |-> Null, port |-> Null, websocket_connections |-> 0 ]

\* A live process with a port is adopted.
adopt(w, name, state) ==
  markPortUsed([w EXCEPT !.orphanPids[name] = state.pid], state.port)

\* The cleaning of a `starting` row that leaves the row as it is.
cleanStartingKeepsRow(w, name, state, exits) ==
  LET w1 == IF Truthy(state.pid) THEN killWithEscalation(w, state.pid, exits) ELSE w
  IN IF Truthy(state.port) THEN releasePort(w1, state.port) ELSE w1

\* A stale `starting` row: kill what is left of the process, write stopped,
\* release the port.
cleanStarting(w, name, state, exits) ==
  LET w1 == IF Truthy(state.pid) THEN killWithEscalation(w, state.pid, exits) ELSE w
      w2 == setProjectState(w1, name, CleanedPartial)
  IN IF Truthy(state.port) THEN releasePort(w2, state.port) ELSE w2

\* One pass of the loop of reconcileOrphanProcesses over the row `state` of the
\* snapshot taken by getAllStates: acc is [w, adopted, cleaned].
reconcileRow(acc, name, state, exits) ==
  LET w == acc.w IN
  IF state.status = "starting"
  THEN [ w |-> cleanStarting(w, name, state, exits),
         adopted |-> acc.adopted, cleaned |-> acc.cleaned + 1 ]
  ELSE IF state.status # "running" \/ ~Truthy(state.pid) THEN acc
  ELSE IF isProcessRunning(w, state.pid) /\ Truthy(state.port)
  THEN [ w |-> adopt(w, name, state),
         adopted |-> acc.adopted + 1, cleaned |-> acc.cleaned ]
  ELSE IF isProcessRunning(w, state.pid)
  THEN [ w |-> setProjectState(killWithEscalation(w, state.pid, exits), name,
                               CleanedPartial),
         adopted |-> acc.adopted, cleaned |-> acc.cleaned + 1 ]
  ELSE LET w1 == setProjectState(w, name, CleanedPartial)
       IN [ w |-> IF Truthy(state.port) THEN releasePort(w1, state.port) ELSE w1,
            adopted |-> acc.adopted, cleaned |-> acc.cleaned + 1 ]

RECURSIVE reconcileFrom(_, _, _, _)
reconcileFrom(acc, states, k, exits) ==
  IF k > RowCount(states) THEN acc
  ELSE LET name == RowOrder(states, 1)[k]
       IN reconcileFrom(reconcileRow(acc, name, states[name], exits),
                        states, k + 1, exits)

\* reconcileOrphanProcesses: [w, adopted, cleaned].
reconcileOrphanProcesses(w, exits) ==
  reconcileFrom([ w |-> w, adopted |-> 0, cleaned |-> 0 ], w.store, 1, exits)

\* The rows a daemon can leave behind: none, `stopped`, `starting` with the
\* port it reserved and whatever pid the row had before, `running` with the
\* pid and port written by startProject. Two rows can carry the same port
\* (startProject releases the port of a dead `running` project before it
\* rewrites the row). The processes of the rows are dead, alive, or alive
\* and listening; one port has one listener.
RowKinds == {"none", "stopped", "starting", "running"}
ChildStates == {"dead", "up", "listening"}

PersistedRow(n, kind, port, haspid, rowid) ==
  CASE kind = "none" -> NoRow
    [] kind = "stopped" -> [DefaultRow EXCEPT !.rowid = rowid]
    [] kind = "starting" ->
         [DefaultRow EXCEPT !.rowid = rowid, !.status = "starting", !.port = port,
                            !.pid = IF haspid THEN ProjectPid(n) ELSE Null,
                            !.started_at = StartClock]
    [] OTHER ->
         [DefaultRow EXCEPT !.rowid = rowid, !.status = "running", !.port = port,
                            !.pid = ProjectPid(n), !.last_activity = StartClock,
                            !.started_at = StartClock]

InitRestart ==
  /\ now = StartClock
  /\ yaml = TheYaml
  /\ config = loadConfig(yaml)
  /\ \E kind \in [Projects -> RowKinds], port \in [Projects -> Ports],
        haspid \in [Projects -> BOOLEAN], st \in [Projects -> ChildStates],
        first \in Projects :
       LET tracked(n) == kind[n] = "running" \/ (kind[n] = "starting" /\ haspid[n])
           rowid(n) == IF \A m \in Projects : kind[m] # "none"
                       THEN IF n = first THEN 1 ELSE 2
                       ELSE 1
       IN /\ \A n \in Projects :
               /\ kind[n] \in {"none", "stopped"} => port[n] = MinPort
               /\ kind[n] # "starting" => ~haspid[n]
               /\ ~tracked(n) => st[n] = "dead"
          /\ (\E n \in Projects : kind[n] = "none") => first = "alpha"
          /\ \A n, m \in Projects :
               n # m /\ st[n] = "listening" /\ st[m] = "listening"
                 => port[n] # port[m]
          /\ store = [n \in Projects |->
                        PersistedRow(n, kind[n], port[n], haspid[n], rowid(n))]
          /\ children = [p \in Pids |->
                          IF \E n \in Projects : tracked(n) /\ ProjectPid(n) = p
                          THEN LET n == CHOOSE n \in Projects : ProjectPid(n) = p
                               IN [NoChild EXCEPT !.st = st[n], !.port = port[n],
                                                  !.name = n]
                          ELSE NoChild]
  /\ metrics = [n \in Projects |-> NoMetrics]
  /\ nextPid = 3
  /\ usedPorts = {}
  /\ processes = [n \in Projects |-> Null]
  /\ orphanPids = [n \in Projects |-> Null]
  /\ req = [r \in Reqs |-> FreeReq]
  /\ events = 0
  /\ conn = [c \in ConnSlots |-> NoConn]
  /\ scan = [i \in ScanIds |-> NoScan]
  /\ daemon = "booting"
  /\ shut = [n \in Projects |-> NoStop]
  /\ idleStops = {}
  /\ healthCheckCache = [p \in Ports |-> NoEntry]
  /\ cfgSettings = config.settings
  /\ probe = NoProbe

\* The daemon's startup: initializePortsFromState, reconcileOrphanProcesses,
\* then startProxy(config); probe keeps the counters reconcile returned.
Boot ==
  /\ daemon = "booting"
  /\ \E exits \in SUBSET { p \in Pids : Alive(World, p) } :
       LET r == reconcileOrphanProcesses(initializePortsFromState(World), exits)
       IN /\ Commit([r.w EXCEPT !.cfgSettings = config.settings])
          /\ probe' = [ op |-> "reconcileOrphanProcesses", name |-> "",
                        result |-> r.adopted, cleaned |-> r.cleaned ]
  /\ daemon' = "serving"
  /\ UNCHANGED << now, yaml, config, req, events, conn, scan, shut, idleStops >>

ArriveAfterBoot(r, n, kind) == events < MaxRestartEvents /\ Arrive(r, n, kind)
StopAfterBoot(n) == daemon = "serving" /\ events < MaxRestartEvents /\ StopCalled(n)
CrashAfterBoot(pid) == events < MaxRestartEvents /\ ChildCrashes(pid)

NextRestart ==
  \/ Boot
  \/ \E r \in Reqs, n \in Projects, k \in {"http", "ws"} : ArriveAfterBoot(r, n, k)
  \/ \E r \in Reqs : ProbeHealthy(r)
  \/ \E r \in Reqs : ProbeFailed(r)
  \/ \E r \in Reqs : AllocateAndSpawn(r)
  \/ \E r \in Reqs : BecameHealthy(r)
  \/ \E r \in Reqs : StartTimedOut(r)
  \/ \E n \in Projects : StopAfterBoot(n)
  \/ \E n \in Projects : StopGoesOn(n)
  \/ \E p \in Pids : ChildListens(p)
  \/ \E p \in Pids : ChildExits(p)
  \/ \E p \in Pids : CrashAfterBoot(p)

SpecRestart == InitRestart /\ [][NextRestart]_vars

\* The startup alone, over every store a daemon can leave behind.
NextBoot == Boot

SpecBoot == InitRestart /\ [][NextBoot]_vars

\* ------------------------------------------------------------ every way of stopping a process
\* A daemon that serves with projects tracked in each way, or one that boots
\* on a store left behind; then stopProject calls and the shutdown.
InitEscalation == InitStop \/ InitRestart

StopWhileServing(n) == daemon = "serving" /\ StopCalled(n)
StopReturns(n) == daemon = "serving" /\ StopGoesOn(n)
ShutdownWhenQuiet == (\A n \in Projects : shut[n].pc = "none") /\ Shutdown

NextEscalation ==
  \/ Boot
  \/ \E n \in Projects : StopWhileServing(n)
  \/ \E n \in Projects : StopReturns(n)
  \/ ShutdownWhenQuiet
  \/ \E n \in Projects : ShutdownResume(n)
  \/ \E p \in Pids : ChildExits(p)

SpecEscalation == InitEscalation /\ [][NextEscalation]_vars

\* ------------------------------------------------------------ stops and starts of one daemon
\* Running projects tracked in each way; stopProject calls, requests and the
\* cold starts they cause.
NextGeneration ==
  \/ \E r \in Reqs, n \in Projects, k \in {"http", "ws"} : ArriveAfterBoot(r, n, k)
  \/ \E r \in Reqs : ProbeHealthy(r)
  \/ \E r \in Reqs : ProbeFailed(r)
  \/ \E r \in Reqs : AllocateAndSpawn(r)
  \/ \E r \in Reqs : BecameHealthy(r)
  \/ \E r \in Reqs : StartTimedOut(r)
  \/ \E n \in Projects : StopAfterBoot(n)
  \/ \E n \in Projects : StopGoesOn(n)
  \/ \E p \in Pids : ChildListens(p)
  \/ \E p \in Pids : ChildExits(p)
  \/ \E p \in Pids : CrashAfterBoot(p)

SpecGeneration == InitStop /\ [][NextGeneration]_vars

\* ------------------------------------------------------------ routing and hot reload
\* The Host headers of the runs, and String.split(".localhost")[0] on them.
Hosts ==
  { "alpha.localhost", "ALPHA.localhost:80", "beta.localhost", "web.localhost",
    "ghost.localhost", "" }

Subdomain(host) ==
  CASE host = "alpha.localhost" -> "alpha"
    [] host = "ALPHA.localhost:80" -> "ALPHA"
    [] host = "beta.localhost" -> "beta"
    [] host = "web.localhost" -> "web"
    [] host = "ghost.localhost" -> "ghost"
    [] OTHER -> ""

toLowerCase(label) == IF label = "ALPHA" THEN "alpha" ELSE label

\* Object.entries(cfg.projects): the names in the order of the file.
ConfigOrder(cfg) ==
  SelectSeq(<< "alpha", "beta" >>, LAMBDA n : n \in DOMAIN cfg.projects)

\* nameToConfig.set for the name and then the aliases of one project: a later
\* set of the same label replaces the earlier one.
RECURSIVE SetAliases(_, _, _, _)
SetAliases(table, name, aliases, k) ==
  IF k > Len(aliases) THEN table
  ELSE SetAliases([l \in DOMAIN table \cup {toLowerCase(aliases[k])} |->
                     IF l = toLowerCase(aliases[k]) THEN name ELSE table[l]],
                  name, aliases, k + 1)

RECURSIVE SetEntries(_, _, _, _)
SetEntries(table, cfg, order, k) ==
  IF k > Len(order) THEN table
  ELSE LET name == order[k]
           named == [l \in DOMAIN table \cup {toLowerCase(name)} |->
                       IF l = toLowerCase(name) THEN name ELSE table[l]]
       IN SetEntries(SetAliases(named, name, cfg.projects[name].aliases, 1),
                     cfg, order, k + 1)

\* setConfig: the routing table, from label to the name of the project
\* whose config the label points to.
setConfig(cfg) == SetEntries(<< >>, cfg, ConfigOrder(cfg), 1)

\* The table of the proxy: startProxy and every reload set it from config.
nameToConfig == setConfig(config)

\* A fetch that counts the request of an unknown label in the metrics of the
\* first project.
FetchCountsUnknown(r, host, kind) ==
  /\ daemon = "serving"
  /\ events < MaxRouteEvents
  /\ req[r].pc = "free"
  /\ \A q \in Reqs : q < r => req[q].pc # "free"
  /\ LET subdomain == toLowerCase(Subdomain(host)) IN
     IF subdomain = "" \/ subdomain \notin DOMAIN nameToConfig
     THEN /\ events' = events + 1
          /\ probe' = Response(kind, host, 404, Null)
          /\ Commit(addRequestToHistory(World, "alpha", now))
          /\ UNCHANGED << now, yaml, config, req, conn, scan, daemon,
                          shut, idleStops >>
     ELSE Arrive(r, nameToConfig[subdomain], kind)

\* fetch: the route of the request, then the handler of the project; an
\* unknown label is answered 404 at once.
Fetch(r, host, kind) ==
  /\ daemon = "serving"
  /\ events < MaxRouteEvents
  /\ req[r].pc = "free"
  /\ \A q \in Reqs : q < r => req[q].pc # "free"
  /\ LET subdomain == toLowerCase(Subdomain(host)) IN
     IF subdomain = "" \/ subdomain \notin DOMAIN nameToConfig
     THEN /\ events' = events + 1
          /\ probe' = Response(kind, host, 404, Null)
          /\ UNCHANGED << now, yaml, config, store, metrics, usedPorts,
                          healthCheckCache, cfgSettings, 
                          processes,
                          orphanPids, children, nextPid, req, conn, scan, daemon,
                          shut, idleStops >>
     ELSE Arrive(r, nameToConfig[subdomain], kind)

\* The configuration files of the routing runs: the projects present, and the
\* aliases of each.
RouteYaml(present, aliases) ==
  [ settings |-> TheYaml.settings,
    projects |-> [ n \in present |->
                   [ idle_timeout |-> RawAbsent, disabled |-> "absent",
                     aliases |-> aliases[n] ] ] ]

AliasChoices ==
  { a \in [Projects -> {<< >>, << "web" >>, << "alpha" >>}] :
      a["alpha"] # << "alpha" >> }

RouteYamls ==
  { RouteYaml(present, [n \in Projects |-> IF n \in present THEN a[n] ELSE << >>]) :
      present \in {{"alpha", "beta"}, {"beta"}}, a \in AliasChoices }

\* A reload that writes `stopped` to the rows of the projects it drops.
ReloadStopsRemoved(y) ==
  /\ daemon = "serving"
  /\ events < MaxRouteEvents
  /\ y # yaml
  /\ events' = events + 1
  /\ yaml' = y
  /\ config' = loadConfig(y)
  /\ probe' = NoProbe
  /\ store' = [n \in Projects |->
                 IF store[n].exists /\ n \notin DOMAIN y.projects
                 THEN [store[n] EXCEPT !.status = "stopped"] ELSE store[n]]
  /\ UNCHANGED << now, metrics, usedPorts, healthCheckCache, cfgSettings,
                  processes, orphanPids,
                  children, nextPid, req, conn, scan, daemon, shut, idleStops >>

\* The file watcher's callback: the new configuration is published to the
\* proxy and the idle watcher, whose timer is restarted.
Reload(y) ==
  /\ daemon = "serving"
  /\ events < MaxRouteEvents
  /\ y # yaml
  /\ events' = events + 1
  /\ yaml' = y
  /\ config' = loadConfig(y)
  /\ probe' = NoProbe
  /\ UNCHANGED << now, store, metrics, usedPorts, healthCheckCache, cfgSettings,
                  processes, orphanPids,
                  children, nextPid, req, conn, scan, daemon, shut, idleStops >>

\* Every project of the first configuration is running under the daemon, or
\* has never been started.
InitRoute ==
  /\ now = StartClock
  /\ yaml \in { y \in RouteYamls : DOMAIN y.projects = Projects }
  /\ config = loadConfig(yaml)
  /\ \E up \in SUBSET Projects :
       LET k(n) == ProjectPid(n)
           rowid(n) == IF n = "beta" /\ "alpha" \in up THEN 2 ELSE 1
       IN /\ store = [n \in Projects |->
                       IF n \in up
                       THEN [DefaultRow EXCEPT !.rowid = rowid(n), !.status = "running",
                                               !.port = MinPort + k(n) - 1,
                                               !.pid = k(n),
                                               !.last_activity = StartClock,
                                               !.started_at = StartClock]
                       ELSE NoRow]
          /\ children = [p \in Pids |->
                          IF \E n \in up : k(n) = p
                          THEN [NoChild EXCEPT
                                  !.st = "listening", !.port = MinPort + p - 1,
                                  !.name = CHOOSE n \in Projects : k(n) = p]
                          ELSE NoChild]
          /\ usedPorts = { MinPort + k(n) - 1 : n \in up }
          /\ processes = [n \in Projects |-> IF n \in up THEN k(n) ELSE Null]
  /\ metrics = [n \in Projects |-> NoMetrics]
  /\ orphanPids = [n \in Projects |-> Null]
  /\ nextPid = 3
  /\ req = [r \in Reqs |-> FreeReq]
  /\ events = 0
  /\ conn = [c \in ConnSlots |-> NoConn]
  /\ scan = [i \in ScanIds |-> NoScan]
  /\ daemon = "serving"
  /\ shut = [n \in Projects |-> NoStop]
  /\ idleStops = {}
  /\ healthCheckCache = [p \in Ports |-> NoEntry]
  /\ cfgSettings = config.settings
  /\ probe = NoProbe

NextRoute ==
  \/ \E r \in Reqs, h \in Hosts, k \in {"http", "ws"} : Fetch(r, h, k)
  \/ \E y \in RouteYamls : Reload(y)
  \/ \E r \in Reqs : ProbeHealthy(r)
  \/ \E r \in Reqs : AllocateAndSpawn(r)
  \/ \E r \in Reqs : BecameHealthy(r)
  \/ \E r \in Reqs : StartTimedOut(r)
  \/ \E p \in Pids : ChildListens(p)

SpecRoute == InitRoute /\ [][NextRoute]_vars

\* ------------------------------------------------------------ the idle scan over idle projects
\* A configuration file with the scan interval `si`: beta has the default
\* idle timeout, one interval, and alpha declares two intervals.
IdleYaml(si) ==
  LET interval == IF si.kind # "absent" THEN parseDuration(si)
                  ELSE DEFAULT_SETTINGS.scan_interval
  IN [ settings |-> [ idle_timeout |-> RawNum(interval),
                      dynamic_timeout |-> "absent",
                      min_timeout |-> RawAbsent, max_timeout |-> RawAbsent,
                      scan_interval |-> si,
                      port_lo |-> MinPort, port_hi |-> MinPort + NumPorts - 1 ],
       projects |-> [ n \in Projects |->
                      [ idle_timeout |-> IF n = "alpha" THEN RawNum(2 * interval)
                                         ELSE RawAbsent,
                        disabled |-> "absent" ] ] ]

\* Both projects were started by a request and have had no traffic since.
InitIdle ==
  /\ now = StartClock
  /\ yaml \in { IdleYaml(si) : si \in {RawAbsent, RawStr(1, "s")} }
  /\ config = loadConfig(yaml)
  /\ store = [n \in Projects |->
               LET k == IF n = "alpha" THEN 1 ELSE 2 IN
               [DefaultRow EXCEPT !.rowid = k, !.status = "running",
                                  !.port = MinPort + k - 1, !.pid = k,
                                  !.last_activity = StartClock,
                                  !.started_at = StartClock]]
  /\ metrics = [n \in Projects |->
                 [ exists |-> TRUE, cold_start_time |-> 0,
                   request_history |-> << StartClock >> ]]
  /\ children = [p \in Pids |->
                  IF p = 1 THEN [NoChild EXCEPT !.st = "listening", !.port = MinPort,
                                                !.name = "alpha"]
                  ELSE IF p = 2 THEN [NoChild EXCEPT !.st = "listening",
                                                     !.port = MinPort + 1,
                                                     !.name = "beta"]
                  ELSE NoChild]
  /\ nextPid = 3
  /\ usedPorts = {MinPort, MinPort + 1}
  /\ processes = [n \in Projects |-> IF n = "alpha" THEN 1 ELSE 2]
  /\ orphanPids = [n \in Projects |-> Null]
  /\ req = [r \in Reqs |-> FreeReq]
  /\ events = 0
  /\ conn = [c \in ConnSlots |-> NoConn]
  /\ scan = [i \in ScanIds |-> NoScan]
  /\ daemon = "serving"
  /\ shut = [n \in Projects |-> NoStop]
  /\ idleStops = {}
  /\ healthCheckCache = [p \in Ports |-> NoEntry]
  /\ cfgSettings = config.settings
  /\ probe = NoProbe

NextIdle ==
  \/ \E i \in ScanIds : ScanStart(i)
  \/ \E i \in ScanIds : ScanResume(i)
  \/ \E p \in Pids : ChildExits(p)
  \/ \E p \in Pids : ChildCrashes(p)

\* The interval timer keeps firing, and the waits of stopProject end.
SpecIdle ==
  /\ InitIdle
  /\ [][NextIdle]_vars
  /\ \A i \in ScanIds : WF_vars(ScanStart(i)) /\ WF_vars(ScanResume(i))

\* ------------------------------------------------------------ activity of a running project
\* Ticks, requests and closes while both projects run; the requests
\* are for beta, whose idle timeout is one scan interval.
TickDuringActivity(i) == events < MaxActivityEvents /\ ScanStart(i)
RequestDuringActivity(r, kind) == events < MaxActivityEvents /\ Arrive(r, "beta", kind)
CloseDuringActivity(c) == events < MaxActivityEvents /\ ClientClosed(c)

NextActivity ==
  \/ \E i \in ScanIds : TickDuringActivity(i)
  \/ \E i \in ScanIds : ScanResume(i)
  \/ \E r \in Reqs, k \in {"http", "ws"} : RequestDuringActivity(r, k)
  \/ \E r \in Reqs : ProbeHealthy(r)
  \/ \E r \in Reqs : ProbeFailed(r)
  \/ \E r \in Reqs : AllocateAndSpawn(r)
  \/ \E r \in Reqs : BecameHealthy(r)
  \/ \E r \in Reqs : StartTimedOut(r)
  \/ \E c \in ConnSlots : TargetOpen(c)
  \/ \E c \in ConnSlots : TargetClosed(c)
  \/ \E c \in ConnSlots : CloseDuringActivity(c)
  \/ \E p \in Pids : ChildListens(p)
  \/ \E p \in Pids : ChildExits(p)

SpecActivity == InitIdle /\ [][NextActivity]_vars

\* Both projects run and alpha, the first row, has been idle for a second
\* longer than beta.
InitStale ==
  /\ now = StartClock
  /\ yaml \in { IdleYaml(si) : si \in {RawAbsent, RawStr(1, "s")} }
  /\ config = loadConfig(yaml)
  /\ store = [n \in Projects |->
               LET k == IF n = "alpha" THEN 1 ELSE 2 IN
               [DefaultRow EXCEPT !.rowid = k, !.status = "running",
                                  !.port = MinPort + k - 1, !.pid = k,
                                  !.last_activity = StartClock - (2 - k) * 1000,
                                  !.started_at = StartClock - (2 - k) * 1000]]
  /\ metrics = [n \in Projects |->
                 [ exists |-> TRUE, cold_start_time |-> 0,
                   request_history |-> << store[n].last_activity >> ]]
  /\ children = [p \in Pids |->
                  IF p = 1 THEN [NoChild EXCEPT !.st = "listening", !.port = MinPort,
                                                !.name = "alpha"]
                  ELSE IF p = 2 THEN [NoChild EXCEPT !.st = "listening",
                                                     !.port = MinPort + 1,
                                                     !.name = "beta"]
                  ELSE NoChild]
  /\ nextPid = 3
  /\ usedPorts = {MinPort, MinPort + 1}
  /\ processes = [n \in Projects |-> IF n = "alpha" THEN 1 ELSE 2]
  /\ orphanPids = [n \in Projects |-> Null]
  /\ req = [r \in Reqs |-> FreeReq]
  /\ events = 0
  /\ conn = [c \in ConnSlots |-> NoConn]
  /\ scan = [i \in ScanIds |-> NoScan]
  /\ daemon = "serving"
  /\ shut = [n \in Projects |-> NoStop]
  /\ idleStops = {}
  /\ healthCheckCache = [p \in Ports |-> NoEntry]
  /\ cfgSettings = config.settings
  /\ probe = NoProbe

SpecStale == InitStale /\ [][NextActivity]_vars

\* ------------------------------------------------------------ a daemon that is killed and started again
\* The daemon process is killed (SIGKILL, crash, power loss): no handler runs,
\* its memory and its sockets are gone, the state store and the children
\* stay. systemd starts it again.
DaemonKilled ==
  /\ daemon = "serving"
  /\ events < MaxActivityEvents
  /\ events' = events + 1
  /\ Commit([World EXCEPT !.usedPorts = {},
                          !.healthCheckCache = [p \in Ports |-> NoEntry],
                          !.processes = [n \in Projects |-> Null],
                          !.orphanPids = [n \in Projects |-> Null]])
  /\ req' = [r \in Reqs |-> FreeReq]
  /\ scan' = [i \in ScanIds |-> NoScan]
  /\ conn' = [c \in ConnSlots |-> NoConn]
  /\ shut' = [n \in Projects |-> NoStop]
  /\ daemon' = "booting"
  /\ probe' = NoProbe
  /\ UNCHANGED << now, yaml, config, idleStops >>

NextKilled ==
  \/ \E r \in Reqs, k \in {"http", "ws"} : RequestDuringActivity(r, k)
  \/ \E r \in Reqs : ProbeHealthy(r)
  \/ \E c \in ConnSlots : TargetOpen(c)
  \/ \E c \in ConnSlots : CloseDuringActivity(c)
  \/ DaemonKilled
  \/ Boot
  \/ \E i \in ScanIds : TickDuringActivity(i)
  \/ \E i \in ScanIds : ScanResume(i)
  \/ \E p \in Pids : ChildExits(p)

SpecKilled == InitIdle /\ [][NextKilled]_vars

\* ------------------------------------------------------------ the health cache of the proxy
\* fetch for an HTTP request up to its first wait, with the cache: a fresh
\* healthy entry forwards at once, a fresh unhealthy one goes to the retries
\* of waitForHealthyWithBackoff, no fresh entry starts a real probe whose
\* timestamp is the time of the call.
FetchCached(r, name) ==
  /\ daemon = "serving"
  /\ req[r].pc = "free"
  /\ \A q \in Reqs : q < r => req[q].pc # "free"
  /\ events < MaxCacheEvents
  /\ events' = events + 1
  /\ name \in DOMAIN config.projects
  /\ LET state == store[name]
         running == state.exists /\ state.status = "running" /\ Truthy(state.port)
         cached == checkHealthCached(World, state.port, now)
         waiting(pc) == [ pc |-> pc, name |-> name, kind |-> "http",
                          port |-> state.port, proc |-> Null, startTime |-> now,
                          settings |-> DEFAULT_SETTINGS ]
     IN IF ~running THEN StartCall(World, r, name, "http")
        ELSE IF cached.fresh /\ cached.healthy
             THEN /\ Commit(updateActivity(World, name, now))
                  /\ req' = req
                  /\ conn' = conn
                  /\ probe' = Response("http", name, 200, state.port)
             ELSE /\ Commit(World)
                  /\ req' = [req EXCEPT ![r] = waiting(IF cached.fresh THEN "probe"
                                                                     ELSE "check")]
                  /\ conn' = conn
                  /\ probe' = NoProbe
  /\ UNCHANGED << now, yaml, config, scan, daemon, shut, idleStops >>

\* The real probe of checkHealthCached answered: the entry is written with
\* the time of the call, then fetch forwards or goes to the retries.
CheckAnswered(r) ==
  /\ daemon # "exited"
  /\ req[r].pc = "check"
  /\ LET healthy == checkHealth(World, req[r].port)
         w1 == [World EXCEPT !.healthCheckCache[req[r].port] =
                  [ healthy |-> healthy, timestamp |-> req[r].startTime ]]
     IN IF healthy
        THEN /\ Commit(updateActivity(w1, req[r].name, now))
             /\ req' = [req EXCEPT ![r] = FreeReq]
             /\ probe' = Response("http", req[r].name, 200, req[r].port)
        ELSE /\ Commit(w1)
             /\ req' = [req EXCEPT ![r].pc = "probe"]
             /\ probe' = NoProbe
  /\ UNCHANGED << now, yaml, config, events, conn, scan, daemon, shut,
                  idleStops >>

\* A second goes by. The children hang and recover but do not die, so the
\* startProject of a request whose retries failed returns the port at once.
CacheClock ==
  /\ events < MaxCacheEvents
  /\ events' = events + 1
  /\ now' = now + 1000
  /\ probe' = NoProbe
  /\ UNCHANGED << yaml, config, store, metrics, usedPorts, healthCheckCache, cfgSettings,
                  
                  processes, orphanPids, children, nextPid, req, conn, scan,
                  daemon, shut, idleStops >>

HangWhileCached(pid) == events < MaxCacheEvents /\ ChildHangs(pid)

NextCache ==
  \/ \E r \in Reqs, n \in Projects : FetchCached(r, n)
  \/ \E r \in Reqs : CheckAnswered(r)
  \/ CacheClock
  \/ \E p \in Pids : HangWhileCached(p)
  \/ \E r \in Reqs : ProbeHealthy(r)
  \/ \E r \in Reqs : ProbeFailed(r)
  \/ \E p \in Pids : ChildListens(p)

SpecCache == InitIdle /\ [][NextCache]_vars

\* ------------------------------------------------------------ the WebSocket bridge alone
\* The message handler: `ws.data.targetWs?.send(message)`, where targetWs is
\* set by targetWs.onopen. The client's k-th message is the number k.
ClientSends(c) ==
  /\ daemon # "exited"
  /\ conn[c].client = "open"
  /\ conn[c].sent < MaxMessages
  /\ conn' = [conn EXCEPT ![c].sent = @ + 1,
                          ![c].forwarded = IF conn[c].connected
                                           THEN Append(@, conn[c].sent + 1) ELSE @]
  /\ probe' = NoProbe
  /\ UNCHANGED << now, yaml, config, store, metrics, usedPorts,
                  healthCheckCache, cfgSettings, 
                  
                  processes, orphanPids, children, nextPid, req, events, scan,
                  daemon, shut, idleStops >>

UpgradeOnBridge(r) == events < MaxBridgeEvents /\ Arrive(r, "beta", "ws")
CloseOnBridge(c) == events < MaxBridgeEvents /\ ClientClosed(c)
CrashOnBridge(pid) == events < MaxBridgeEvents /\ ChildCrashes(pid)

NextBridge ==
  \/ \E r \in Reqs : UpgradeOnBridge(r)
  \/ \E c \in ConnSlots : TargetOpen(c)
  \/ \E c \in ConnSlots : ClientSends(c)
  \/ \E c \in ConnSlots : CloseOnBridge(c)
  \/ \E c \in ConnSlots : TargetClosed(c)
  \/ \E p \in Pids : CrashOnBridge(p)

SpecBridge == InitIdle /\ [][NextBridge]_vars

\* ------------------------------------------------------------ hot reload of the settings
\* The configuration file with the port range cut down to its upper ports.
NarrowYaml == [TheYaml EXCEPT !.settings.port_lo = MinPort + 1]

\* The file is rewritten while no request is being handled, so every cold
\* start in flight was called after the latest reload.
ReloadWhenQuiet(y) == (\A r \in Reqs : req[r].pc = "free") /\ Reload(y)

NextReload ==
  \/ \E y \in {TheYaml, NarrowYaml} : ReloadWhenQuiet(y)
  \/ \E r \in Reqs, h \in {"beta.localhost", "ghost.localhost"},
        k \in {"http", "ws"} : Fetch(r, h, k)
  \/ \E r \in Reqs : ProbeHealthy(r)
  \/ \E r \in Reqs : AllocateAndSpawn(r)
  \/ \E r \in Reqs : BecameHealthy(r)
  \/ \E r \in Reqs : StartTimedOut(r)
  \/ \E p \in Pids : ChildListens(p)

SpecReload == Init /\ [][NextReload]_vars

\* ------------------------------------------------------------ claims
Running(n) == store[n].exists /\ store[n].status = "running"
Active(n) == store[n].exists /\ store[n].status \in {"starting", "running"}

\* C1.  Port uniqueness: no two distinct projects whose status is `running`
\* have the same port.
PortUniqueness ==
  \A p, q \in Projects :
    p # q /\ Running(p) /\ Running(q) => store[p].port # store[q].port

\* C2.  Idempotent start: two startProject calls of one project that are in
\* flight together wait for one and the same child, on one and the same port.
IdempotentStart ==
  \A r1, r2 \in Reqs :
    /\ r1 # r2
    /\ req[r1].pc = "healthy" /\ req[r2].pc = "healthy"
    /\ req[r1].name = req[r2].name
    => req[r1].proc = req[r2].proc /\ req[r1].port = req[r2].port

\* C3.  Reservation consistency: while the daemon lives, every project whose
\* status is `starting` or `running` has its port in usedPorts.
ReservationConsistency ==
  daemon # "exited" => \A n \in Projects : Active(n) => store[n].port \in usedPorts

\* C4.  No leaked reservations: while the daemon lives, every port in
\* usedPorts is the port of a project whose status is `starting` or `running`
\* (findAvailablePort and the state write of its caller are one step here).
NoLeakedReservations ==
  daemon # "exited" =>
    \A p \in usedPorts : \E n \in Projects : Active(n) /\ store[n].port = p

\* C5.  Shutdown in the middle of a start: once the daemon has exited, no
\* project in state `starting` has a child left alive.
NoStartingChildAfterShutdown ==
  daemon = "exited" =>
    \A n \in Projects :
      store[n].exists /\ store[n].status = "starting" =>
        \A pid \in Pids : children[pid].name = n => ~Alive(World, pid)

\* C6.  The idle scan never calls stopProject on a project whose
\* websocket_connections is above 0 at the time of the call.
NoIdleStopWithWebSockets == \A e \in idleStops : e.ws = 0

\* C7.  WebSocket counter balance: while the daemon lives, a project none of
\* whose upgraded client connections is open has websocket_connections 0.
WebSocketBalance ==
  daemon # "exited" =>
    \A n \in Projects :
      /\ store[n].exists
      /\ \A c \in ConnSlots : conn[c].name = n => conn[c].client # "open"
      => store[n].websocket_connections = 0

\* C8.  websocket_connections is never below 0, after any sequence of
\* incrementWebSockets, decrementWebSockets, setProjectState, stopProject and
\* reconciliation.
WebSocketsNonNegative ==
  \A n \in Projects : store[n].websocket_connections >= 0

\* C8, witness: decrementWebSockets was called on a row whose counter was 0.
DecrementedAtZero ==
  /\ probe.op = "decrementWebSockets"
  /\ probe.result = 0
  /\ store[probe.name].exists
  /\ store[probe.name].websocket_connections = 0

\* C9.  A project whose configuration file declares idle_timeout 0 is never
\* stopped by the idle scan.
ZeroIdleTimeoutNeverStopped ==
  \A e \in idleStops : yaml.projects[e.name].idle_timeout # RawNum(0)

Clamped(settings, T) == settings.min_timeout <= T /\ T <= settings.max_timeout

\* C11.  Effective-timeout selection: for a project whose YAML entry has no
\* idle_timeout, with dynamic_timeout true, the timeout the idle scan stops
\* it on is the dynamic one, which lies between min_timeout and max_timeout.
DynamicTimeoutWhenAbsent ==
  \A e \in idleStops :
    /\ yaml.projects[e.name].idle_timeout = RawAbsent
    /\ config.settings.dynamic_timeout
    => Clamped(config.settings, e.timeout)

\* C10, as stated.  When settings.dynamic_timeout is true, getEffectiveTimeout
\* returns a value between min_timeout and max_timeout, for any input.
TimeoutClamp ==
  probe.op = "getEffectiveTimeout" /\ config.settings.dynamic_timeout
    => Clamped(config.settings, probe.result)

\* C10, amended.  When settings.dynamic_timeout is true, min_timeout is at
\* most max_timeout, the project has a state row and the configuration holds
\* no idle_timeout for it, getEffectiveTimeout returns a value between
\* min_timeout and max_timeout.
TimeoutClampDynamic ==
  /\ probe.op = "getEffectiveTimeout"
  /\ config.settings.dynamic_timeout
  /\ config.settings.min_timeout <= config.settings.max_timeout
  /\ store[probe.name].exists
  /\ ConfigIdleTimeout(config, probe.name) = Null
  => Clamped(config.settings, probe.result)

\* C10, witness: a dynamic timeout above max_timeout came back as max_timeout.
ClampedToMax ==
  /\ probe.op = "getEffectiveTimeout"
  /\ config.settings.dynamic_timeout
  /\ config.settings.min_timeout <= config.settings.max_timeout
  /\ store[probe.name].exists
  /\ ConfigIdleTimeout(config, probe.name) = Null
  /\ metrics[probe.name].cold_start_time = 60000
  /\ probe.result = config.settings.max_timeout

\* The idle scan's conditions on a project, and the timeout it uses.
IdleCandidate(n) ==
  /\ Running(n)
  /\ ~ConfigDisabled(config, n)
  /\ store[n].websocket_connections = 0
  /\ Truthy(store[n].last_activity)
  /\ ConfigIdleTimeout(config, n) # Null
  /\ ConfigIdleTimeout(config, n) > 0

\* The callback i has project n of its snapshot still to look at.
Pending(sc, n) ==
  sc.pc = "stopping" /\ \E k \in sc.idx .. Len(sc.order) : sc.order[k] = n

\* Once the idle time of a candidate has reached its timeout, the scan has
\* handed it to stopProject, or a callback waiting in an earlier stop has it
\* next in its snapshot.
StoppedAtFirstTick ==
  \A n \in Projects :
    /\ IdleCandidate(n)
    /\ now - store[n].last_activity >= ConfigIdleTimeout(config, n)
    => \/ \E e \in idleStops : e.name = n
       \/ \E i \in ScanIds : Pending(scan[i], n)

\* C12.  Idle stop liveness: a running project that is not disabled, has no
\* WebSocket connection, a last_activity and a timeout above 0, and gets no
\* traffic, is handed to stopProject by the scan tick at which its idle time
\* reaches the timeout, and ends `stopped` with its port out of usedPorts.
IdleStopLiveness ==
  /\ []StoppedAtFirstTick
  /\ \A n \in Projects :
       IdleCandidate(n)
         ~> /\ store[n].status = "stopped"
            /\ \E e \in idleStops : e.name = n
            /\ \A pid \in Pids :
                 children[pid].name = n => children[pid].port \notin usedPorts

\* C12, witness: the scan has stopped an idle project whose child was alive,
\* and its port is free again.
IdleStopped ==
  \E e \in idleStops, pid \in Pids :
    /\ store[e.name].status = "stopped"
    /\ children[pid].name = e.name
    /\ children[pid].term = 1
    /\ children[pid].port \notin usedPorts

\* C13.  One stop per idle expiry: whatever the scan interval, a child gets
\* SIGTERM from the idle scan at most once.
OneSigtermPerIdleExpiry ==
  \A pid \in Pids : children[pid].term <= 1

\* The startProject call of request r returns from waitForHealthy with false.
TimedOut(r) ==
  /\ req[r].pc = "healthy"
  /\ ~checkHealth(World, req[r].port)
  /\ req'[r] # req[r]

\* C14.  Start timeout handling: when waitForHealthy gives up, startProject
\* kills the child, drops it from the process map, releases the port, writes
\* `stopped` with pid and port null and throws (the request ends with nothing
\* forwarded); the allocator then counts the port as free again.
StartTimeoutHandled ==
  [][\A r \in Reqs :
       TimedOut(r) =>
         LET name == req[r].name
             port == req[r].port
             proc == req[r].proc
         IN /\ children[proc].st \in {"up", "listening"}
                 => children'[proc].term >= 1
            /\ processes'[name] # proc
            /\ port \notin usedPorts'
            /\ store'[name].status = "stopped"
            /\ store'[name].pid = Null
            /\ store'[name].port = Null
            /\ req'[r] = FreeReq
            /\ probe' = Failure(req[r].kind, name)
            /\ conn' = conn
            /\ port \in FreePorts([usedPorts |-> usedPorts'], config.settings, {})]_vars

\* C14, witness: a child was killed by the start timeout, and a later child
\* was given the same port.
PortReusedAfterTimeout ==
  \E k \in Pids, j \in Pids :
    /\ k < j
    /\ children[k].term >= 1
    /\ children[j].st # "none"
    /\ children[j].port = children[k].port

\* C15.  Spawn failure handling: a start whose spawn threw leaves the project
\* `stopped` and its port released, so a project is `starting` only while a
\* startProject call is waiting for its child, and that call's port is the
\* only reservation made for it.
SpawnFailureHandled ==
  \A n \in Projects :
    store[n].status = "starting"
      => \E r \in Reqs : req[r].name = n /\ req[r].pc = "healthy"

\* findAvailablePort threw in the startProject call of request r: no port of
\* the range is free.
Exhausted(r) ==
  /\ req[r].pc = "ports"
  /\ req'[r].pc = "free"
  /\ store' = store

\* C16.  A cold start that fails because no port is left, or because the
\* start timed out, is answered with 503, for an HTTP request as for a
\* WebSocket upgrade.
ColdStartFailureIs503 ==
  [][\A r \in Reqs :
       TimedOut(r) \/ Exhausted(r) => probe'.result = 503]_vars

\* The health probe and the backoff retries of request r have failed.
Unreachable(r) ==
  /\ req[r].pc = "probe"
  /\ ~checkHealth(World, req[r].port)
  /\ req'[r] # req[r]

\* C17.  Cold restart of an unreachable project: when the probe and the
\* retries have failed for a `running` project, the fall-through start goes
\* on to allocate a port and launch a new child; the request is not forwarded
\* at that point.
ColdRestartWhenUnreachable ==
  [][\A r \in Reqs : Unreachable(r) => req'[r].pc = "ports"]_vars

\* The step answered a request by forwarding it, or by upgrading it.
Forwarded == probe'.op \in {"http", "ws"} /\ probe'.result \in {200, 101}

\* C18.  The proxy takes a port from the stored state only when that state
\* is `running`; and a request is forwarded (or upgraded) either to the port
\* so taken when it arrived, or to the port startProject returned, which is
\* the port of the `running` state at that moment.
ForwardedPortIsRunningPort ==
  [][/\ \A r \in Reqs :
          req[r].pc # "probe" /\ req'[r].pc = "probe"
            => /\ store[req'[r].name].status = "running"
               /\ req'[r].port = store[req'[r].name].port
     /\ Forwarded
          => \/ \E r \in Reqs : /\ req[r].pc = "probe"
                                /\ req'[r].pc = "free"
                                /\ probe'.port = req[r].port
             \/ /\ store'[probe'.name].status = "running"
                /\ store'[probe'.name].port = probe'.port
     /\ \A c \in ConnSlots :
          conn'[c] # conn[c] /\ conn'[c].target = "connecting"
            => /\ probe'.result = 101
               /\ conn'[c].port = probe'.port]_vars

\* C18, witness: an HTTP request was forwarded to the port of a child that a
\* cold start has just brought to `running`.
ForwardedAfterColdStart ==
  /\ probe.op = "http"
  /\ probe.result = 200
  /\ store[probe.name].status = "running"
  /\ store[probe.name].port = probe.port
  /\ store[probe.name].started_at = now
  /\ \E pid \in Pids : /\ store[probe.name].pid = pid
                       /\ children[pid].st = "listening"
                       /\ children[pid].port = probe.port

\* C19.  Running-state validity: a `running` row has a port of the
\* configured range and the pid of a live process.
RunningStateValid ==
  \A n \in Projects :
    store[n].status = "running"
      => /\ store[n].port \in config.settings.port_lo .. config.settings.port_hi
         /\ store[n].pid # Null
         /\ isProcessRunning(World, store[n].pid)

\* C20.  Field nullness by status: pid is null unless the status is `running`,
\* and port is null unless the status is `starting` or `running`.
FieldNullness ==
  \A n \in Projects :
    /\ store[n].pid # Null => store[n].status = "running"
    /\ store[n].port # Null => store[n].status \in {"starting", "running"}

\* The stopProject call for n returns in this step.
StopReturned(n) ==
  probe'.op = "stopProject" /\ probe'.name = n /\ probe'.result = "returned"

\* The pid stopProject picks: the managed child, else the adopted orphan, else
\* the pid of the state row.
StopPid(n) ==
  IF processes[n] # Null THEN processes[n]
  ELSE IF orphanPids[n] # Null THEN orphanPids[n] ELSE store[n].pid

\* C21.  Stop postcondition: a stopProject call for a running project sends
\* SIGTERM to the managed child, else the adopted orphan, else state.pid; when
\* it returns, the port it read is out of usedPorts and the row is `stopped`
\* with pid, port and last_activity null. A call for a project that is not
\* running changes nothing.
StopPostcondition ==
  [][\A n \in Projects :
       /\ shut[n].pc = "none" /\ shut'[n].pc = "wait"
            => /\ shut'[n].pid = StopPid(n)
               /\ children'[StopPid(n)].term >= 1
       /\ StopReturned(n) =>
            IF shut[n].pc # "none" \/ store[n].status = "running"
            THEN LET port == IF shut[n].pc # "none" THEN shut[n].port
                             ELSE store[n].port
                     pid == IF shut[n].pc # "none" THEN shut[n].pid ELSE StopPid(n)
                 IN /\ port \notin usedPorts'
                    /\ pid \in Pids /\ children'[pid].st # "dead"
                         => children'[pid].term >= 1
                    /\ store'[n].status = "stopped"
                    /\ store'[n].pid = Null
                    /\ store'[n].port = Null
                    /\ store'[n].last_activity = Null
            ELSE UNCHANGED << store, metrics, usedPorts, healthCheckCache, cfgSettings,
                              processes, orphanPids,
                              children, nextPid >>]_vars

\* C21, witness: a stopProject call has returned after escalating to SIGKILL.
StoppedAfterSigkill ==
  /\ probe.op = "stopProject"
  /\ probe.result = "returned"
  /\ store[probe.name].status = "stopped"
  /\ \E pid \in Pids : /\ children[pid].name = probe.name
                       /\ children[pid].kill = 1
                       /\ processes[probe.name] = Null

\* C22.  Coordinated shutdown: when the daemon exits, every project that had
\* a managed child has status `stopped`.
ShutdownStopsManaged ==
  daemon = "exited" =>
    \A n \in Projects :
      (\E pid \in Pids : children[pid].name = n) => store[n].status = "stopped"

\* A persisted row that reconcileOrphanProcesses adopts: `running`, with a
\* live pid and a port.
Adoptable(n) ==
  /\ store[n].exists /\ store[n].status = "running"
  /\ Truthy(store[n].pid) /\ Alive(World, store[n].pid)
  /\ Truthy(store[n].port)

\* A project the daemon adopted, whose process is still alive.
Adopted(n) ==
  /\ daemon = "serving"
  /\ orphanPids[n] # Null /\ Alive(World, orphanPids[n])
  /\ store[n].exists /\ store[n].status = "running"
  /\ store[n].pid = orphanPids[n]

\* C23.  Orphan adoption: the startup adopts every persisted `running` row
\* with a live pid and a port, counts it in `adopted`, and reserves its port;
\* afterwards no allocation returns the port of an adopted project, a request
\* for it is forwarded to that port without a new child, and stopProject
\* signals the adopted pid, with SIGKILL after the wait.
OrphanAdoption ==
  [][/\ daemon = "booting" /\ daemon' = "serving" =>
          /\ \A n \in Projects :
               Adoptable(n) => /\ orphanPids'[n] = store[n].pid
                               /\ store'[n] = store[n]
                               /\ store[n].port \in usedPorts'
          /\ probe'.result = Cardinality({ n \in Projects : Adoptable(n) })
     /\ \A n \in Projects :
          Adopted(n) =>
            /\ store[n].port \in usedPorts
            /\ \A r \in Reqs :
                 req[r].pc = "ports" /\ req'[r].pc = "healthy"
                   => req'[r].port # store[n].port
            /\ probe'.op \in {"http", "ws"} /\ probe'.name = n
                 => /\ probe'.port = store[n].port
                    /\ nextPid' = nextPid
            /\ shut[n].pc = "none" /\ shut'[n].pc = "wait"
                 => /\ shut'[n].pid = orphanPids[n]
                    /\ children'[orphanPids[n]].term >= 1
            /\ shut[n].pc = "wait" /\ shut'[n].pc = "killwait"
                 => children'[orphanPids[n]].kill = 1]_vars


\* A persisted row that reconcileOrphanProcesses has to clean: `starting`, or
\* `running` with a dead pid, or `running` with a live pid and no port.
Stale(n) ==
  /\ store[n].exists
  /\ \/ store[n].status = "starting"
     \/ store[n].status = "running" /\ ~Alive(World, store[n].pid)
     \/ store[n].status = "running" /\ ~Truthy(store[n].port)

Label(host) == toLowerCase(Subdomain(host))

\* The labels the configuration gives to project n: its name and aliases.
AliasesOf(cfg, n) ==
  { toLowerCase(cfg.projects[n].aliases[i]) :
      i \in 1 .. Len(cfg.projects[n].aliases) }

LabelsOf(cfg, n) == {toLowerCase(n)} \cup AliasesOf(cfg, n)

\* C25.  A request whose label is not a key of the routing table is answered
\* 404 and changes nothing: no row, no metrics, no reservation, no process
\* map entry, no child, no request in flight.
NotFoundChangesNothing ==
  [][events' # events =>
       LET known == DOMAIN nameToConfig IN
       \A h \in { g \in Hosts : Label(g) = "" \/ Label(g) \notin known } :
         \A r \in Reqs, k \in {"http", "ws"} :
           Fetch(r, h, k)
             => /\ probe' = Response(k, h, 404, Null)
                /\ UNCHANGED << store, metrics, usedPorts, healthCheckCache, cfgSettings,
                                processes, orphanPids,
                                children, nextPid, req, conn >>]_vars

\* An unknown host was answered 404 while a project was running.
NotFoundAnswered ==
  /\ probe.op \in {"http", "ws"} /\ probe.result = 404
  /\ probe.name = "ghost.localhost"
  /\ \E n \in Projects : store[n].status = "running"

\* C26.  Alias routing: a request to any alias of a project is handled as a
\* request to its canonical name: it reads and updates the row of that name
\* and is forwarded to the same port.
AliasRouting ==
  [][\A r \in Reqs, h \in Hosts, k \in {"http", "ws"} :
       \A n \in DOMAIN config.projects :
         Fetch(r, h, k) /\ Label(h) \in AliasesOf(config, n) => Arrive(r, n, k)]_vars

\* A `running` project that the published configuration no longer has.
Removed(n) ==
  /\ n \notin DOMAIN config.projects
  /\ store[n].exists /\ store[n].status = "running"

ActivityMonotone ==
  [][\A n \in Projects :
       /\ store[n].exists
       /\ store'[n].started_at = store[n].started_at
       /\ Truthy(store[n].last_activity)
       => /\ Truthy(store'[n].last_activity)
          /\ store'[n].last_activity >= store[n].last_activity]_vars

\* C28, amended.  Between two writes of started_at the timestamps written to
\* last_activity never decrease: every write is the current time, no row
\* holds a later time than the clock, and the only other value written is the
\* null of a `stopped` write.
ActivityTimestampsMonotone ==
  [][\A n \in Projects :
       LET a == store[n].last_activity
           b == store'[n].last_activity
       IN /\ now' >= now
          /\ Truthy(a) => a <= now
          /\ b # a =>
               \/ b = Null /\ store'[n].status = "stopped"
               \/ b = now' /\ (Truthy(a) => a <= b)]_vars

\* A stopped project whose row was stamped after the stop, in the generation
\* the stop ended: the close of a WebSocket that was upgraded during the stop.
StampedAfterStop ==
  \E n \in Projects :
    /\ store[n].status = "stopped"
    /\ Truthy(store[n].last_activity)
    /\ store[n].last_activity > store[n].started_at
    /\ n \in { e.name : e \in idleStops }

\* C29.  request_history holds at most HistoryLimit timestamps in ascending
\* order; updateActivity sets last_activity to the current time and makes the
\* history the most recent timestamps with the current time last, whether or
\* not the cold start time is known; setColdStartTime leaves the history as
\* it is.
HistoryBound ==
  [][/\ \A n \in Projects :
          LET h == metrics'[n].request_history
          IN /\ Len(h) <= HistoryLimit
             /\ \A i \in 1 .. Len(h) - 1 : h[i] <= h[i + 1]
     /\ probe'.op = "updateActivity" =>
          LET n == probe'.name
              old == metrics[n].request_history
              h == metrics'[n].request_history
              kept == Len(h) - 1
          IN /\ store'[n].last_activity = now
             /\ Len(h) = Min2(Len(old) + 1, HistoryLimit)
             /\ h[Len(h)] = now
             /\ \A i \in 1 .. kept : h[i] = old[Len(old) - kept + i]
             /\ metrics'[n].cold_start_time = metrics[n].cold_start_time
     /\ probe'.op = "setColdStartTime" =>
          /\ metrics'[probe'.name].request_history =
               metrics[probe'.name].request_history
          /\ metrics'[probe'.name].cold_start_time = probe'.result]_vars

\* A full history was trimmed by an updateActivity while the cold start time
\* was unknown: the oldest stamp is gone and the current time is last.
TrimmedWithoutColdStart ==
  /\ probe.op = "updateActivity" /\ probe.result = HistoryLimit
  /\ metrics[probe.name].cold_start_time = Null
  /\ Len(metrics[probe.name].request_history) = HistoryLimit
  /\ metrics[probe.name].request_history[HistoryLimit] = now
  /\ metrics[probe.name].request_history[1] = StartClock - (HistoryLimit - 2) * 1000

\* The fields of a ProjectState, and what an insert gives the ones that the
\* partial state leaves out.
StateFields ==
  {"port", "pid", "status", "last_activity", "started_at", "websocket_connections"}

FieldDefault(f) ==
  CASE f = "status" -> "stopped"
    [] f = "websocket_connections" -> 0
    [] OTHER -> Null

\* C30.  setProjectState followed by getProjectState returns a state in which
\* every field of the partial state has the written value and every other
\* field the value it had, or its default when there was no row.
UpsertRoundTrip ==
  [][probe'.op = "setProjectState" =>
       LET n == probe'.name
           partial == StatePartial(probe'.result, now)
           before == getProjectState(store, n)
           after == getProjectState(store', n)
       IN /\ after.found /\ after.name = n
          /\ \A f \in StateFields :
               after[f] = IF f \in DOMAIN partial THEN partial[f]
                          ELSE IF before.found THEN before[f]
                          ELSE FieldDefault(f)
          /\ \A m \in Projects \ {n} :
               getProjectState(store', m) = getProjectState(store, m)]_vars

\* A `starting` write on a row that held a pid and an activity stamp: both
\* are still there.
UpsertKeptFields ==
  /\ probe.op = "setProjectState" /\ probe.result = 1
  /\ store[probe.name].status = "starting"
  /\ store[probe.name].pid = 1
  /\ store[probe.name].last_activity # Null

\* C31.  findAvailablePort returns the lowest port of the range that is
\* neither reserved nor listening on the host, and reserves it in the same
\* step; when there is none it throws and leaves the reservation set alone.
LowestFreePort ==
  [][probe'.op = "findAvailablePort" =>
       LET free == { p \in config.settings.port_lo .. config.settings.port_hi :
                       p \notin usedPorts /\ p \notin ListeningPorts(World) }
       IN IF free = {}
          THEN probe'.result = Null /\ usedPorts' = usedPorts
          ELSE /\ probe'.result \in free
               /\ \A p \in free : probe'.result <= p
               /\ usedPorts' = usedPorts \cup {probe'.result}]_vars

\* A call that waits for its process after SIGTERM, a call that waits after
\* SIGKILL.
GracefulWaits == {"wait", "orphanwait"}
KillWaits == {"killwait", "orphankillwait"}

\* C32.  In stopProject, stopAllProjects and the reconciliation SIGKILL
\* reaches a process only after SIGTERM was sent to it and it was still
\* alive when the graceful wait ended; a call whose process has exited
\* during the wait sends no SIGKILL; and a call writes `stopped` and
\* releases the port only once its wait has ended.
GracefulEscalation ==
  [][/\ \A p \in Pids :
          children'[p].kill > children[p].kill
            => /\ Alive(World, p)
               /\ children'[p].term > 0
               /\ daemon # "booting"
                    => /\ children[p].term > 0
                       /\ \E n \in Projects : /\ shut[n].pid = p
                                              /\ shut[n].pc \in GracefulWaits
     /\ \A n \in Projects :
          /\ (shut[n].pc \in GracefulWaits /\ shut'[n] # shut[n])
               => IF Alive(World, shut[n].pid)
                  THEN /\ shut'[n].pc \in KillWaits
                       /\ store' = store
                       /\ usedPorts' = usedPorts
                  ELSE /\ shut'[n].pc = "none"
                       /\ children'[shut[n].pid].kill = 0
          /\ (shut[n].pc = "none" /\ shut'[n].pc \in GracefulWaits)
               => store'[n] = store[n] /\ Alive(World', shut'[n].pid)
          /\ (daemon = "booting" /\ store'[n] # store[n] /\ Truthy(store[n].pid))
               => ~Alive(World', store[n].pid)]_vars

\* A process that ignored SIGTERM was killed and its stopProject has returned.
EscalatedThenStopped ==
  /\ probe.op = "stopProject" /\ probe.result = "returned"
  /\ store[probe.name].status = "stopped"
  /\ \E p \in Pids : /\ children[p].name = probe.name
                     /\ children[p].term > 0 /\ children[p].kill = 1

\* A startProject of n has begun a new generation since the waiting
\* stopProject of n read the state.
NewGeneration(n) ==
  /\ shut[n].pc # "none"
  /\ \/ store[n].status = "starting"
     \/ processes[n] # Null /\ processes[n] # shut[n].pid

\* C33.  A stopProject that completes after a startProject of the same
\* project has begun a new generation leaves the new child's entry in the
\* process map, the new generation's port reserved and its `starting` or
\* `running` state in place.
StopSparesNewGeneration ==
  [][\A n \in Projects :
       (NewGeneration(n) /\ shut'[n].pc = "none")
         => /\ processes'[n] = processes[n]
            /\ store'[n].status = store[n].status
            /\ (Truthy(store[n].port) /\ store[n].port \in usedPorts)
                 => store[n].port \in usedPorts']_vars

\* A request handler, a stopProject or an idle scan is at work on project n.
InFlight(n) ==
  \/ \E r \in Reqs : req[r].pc # "free" /\ req[r].name = n
  \/ shut[n].pc # "none"
  \/ \E i \in ScanIds : scan[i].stop.pc # "none" /\ scan[i].stop.name = n

\* C34.  No live child of the daemon belongs to a project that reads
\* `stopped` with no startProject or stopProject in flight, and every live
\* child of the daemon is in the process map or is the pid of a `running`
\* state.
NoUntrackedLiveChild ==
  \A p \in Pids :
    (Alive(World, p) /\ children[p].name \in Projects)
      => LET n == children[p].name
         IN /\ ~(store[n].status = "stopped" /\ ~InFlight(n))
            /\ \/ processes[n] = p
               \/ store[n].status = "running" /\ store[n].pid = p

\* C35.  A project that is `starting` eventually is not: the startProject
\* call that wrote `starting` goes on to write `running` or `stopped`,
\* whatever the spawn and the health probes do.
StartingEnds ==
  \A n \in Projects :
    (store[n].status = "starting") ~> (store[n].status # "starting")

\* C36.  When a scan callback calls stopProject(n), the last_activity the
\* store holds for n at that moment is at least the effective timeout old,
\* whatever was proxied since the callback read its snapshot.
ScanStopsOnlyIdle ==
  [][\A i \in ScanIds, n \in Projects :
       (scan'[i].stop.pc = "wait" /\ scan'[i].stop.name = n /\ scan[i].stop.name # n)
         => /\ Truthy(store[n].last_activity)
            /\ now' - store[n].last_activity
                 >= getEffectiveTimeout(World, config, n, config.settings, now')]_vars

\* The client connections of project n that are open on this daemon and
\* bridged to their target.
OpenConnections(n) ==
  Cardinality({ c \in ConnSlots : /\ conn[c].name = n /\ conn[c].connected
                                  /\ conn[c].client = "open" })

\* C37.  The websocket_connections of an adopted orphan is the number of
\* client connections open on the daemon that adopted it, 0 at adoption.
AdoptedCountIsLive ==
  \A n \in Projects :
    (daemon = "serving" /\ orphanPids[n] # Null)
      => store[n].websocket_connections = OpenConnections(n)

\* The real probes of checkHealthCached to `port` that are under way.
RealProbes(port) == { r \in Reqs : req[r].pc = "check" /\ req[r].port = port }

\* C38.  A request begins a real probe to a port only when the cache has no
\* entry younger than 2 s for it and no real probe to the port is under
\* way: a fresh result is reused, and requests that arrive together cause
\* one probe between them.
OneProbePerPort ==
  [][\A r \in Reqs :
       (req'[r].pc = "check" /\ req[r].pc # "check")
         => /\ ~checkHealthCached(World, req'[r].port, now).fresh
            /\ RealProbes(req'[r].port) = {}]_vars

\* C39.  Every message the client has sent on an upgraded connection has
\* been forwarded to the target, in order, also the ones sent before the
\* target opened; and once one side of a connection is closed the other
\* is closed.
BridgeLosesNothing ==
  \A c \in ConnSlots :
    /\ conn[c].forwarded = [i \in 1 .. conn[c].sent |-> i]
    /\ conn[c].client = "closed" <=> conn[c].target = "closed"

\* C40.  A cold start called after a reload uses the settings the reload
\* published, on the HTTP path and on the WebSocket path alike: the
\* settings its startProject was given are the current ones and the port it
\* reserves lies in the current port_range.
ColdStartUsesPublishedSettings ==
  /\ \A r \in Reqs : req[r].pc = "ports" => req[r].settings = config.settings
  /\ \A n \in Projects :
       (store[n].exists /\ store[n].status = "starting")
         => store[n].port \in config.settings.port_lo .. config.settings.port_hi

====
